---------------------------- MODULE Spec2Model ----------------------------
(***************************************************************************)
(* A model of the matcher language (pkg/vendor/matcher.go) and the silence *)
(* lifecycle (pkg/translation/translation.go) of alertmanager-bot.         *)
(*                                                                         *)
(* A Go string is a sequence of one-character strings.  The characters of  *)
(* the texts are ASCII, so a byte index and a rune index coincide.         *)
(***************************************************************************)
EXTENDS Integers, Sequences, FiniteSets, TLC

VARIABLES
    start, end, now,                            \* silence window and wall clock
    current, state,                             \* CalcSilenceState: time.Now() and result
    text,                                       \* input text of a parser call
    pc,                                         \* position of the running call
    s, i, insideQuotes, escaped, token, tokens, \* locals of ParseMatchers
    j, matchers, err,                           \* token loop and result of ParseMatchers
    pm,                                         \* result of a ParseMatcher call
    rt,                                         \* result of re-parsing pm's rendering
    ms, lset, matched,                          \* Matchers.Matches: receiver, argument, result
    subject,                                    \* Matcher.Matches: argument
    stored, resolved,                           \* Resolved: the silence's Status.State, the call
    alerts,                                     \* the alerts Alertmanager holds
    fields,                                     \* message.Text of the last command, split at " "
    listErr,                                    \* error of ListAlerts in the last handler
    posts, deletes,                             \* silences handed to PostSilence, IDs to DeleteSuperSilence
    response, logged,                           \* outcome of the HTTP request, of the logger's Log
    ret, reply,                                 \* error returned to the handler, its reply
    silenceIDs,                                 \* IDs Alertmanager gave the silences it accepted
    config, admins, isAdmin,                    \* NewBot: arguments, b.admins; isAdminID: the call
    message,                                    \* the message handed to HandleCommands, what Notify gave
    chats, counters, handler,                   \* chat store, commandsCounter, handler that ran
    webhooks, sent,                             \* Serve: the channel, the sends attempted
    out, startIndex, splits                     \* splitMessage: argument and locals

timeVars  == <<start, end, now, current, state, stored, resolved>>
scanVars  == <<s, i, insideQuotes, escaped, token, tokens>>
parseVars == <<text, pc, s, i, insideQuotes, escaped, token, tokens, j, matchers, err, pm, rt>>
matchVars == <<ms, lset, matched, subject>>
botVars   == <<alerts, fields, listErr, posts, deletes, response, logged, ret, reply, silenceIDs>>
teleVars  == <<config, admins, isAdmin, message, chats, counters, handler, webhooks, sent,
               out, startIndex, splits>>
vars      == <<start, end, now, current, state, text, pc, s, i, insideQuotes, escaped,
               token, tokens, j, matchers, err, pm, rt, ms, lset, matched, subject,
               stored, resolved, alerts, fields, listErr, posts, deletes, response,
               logged, ret, reply, silenceIDs, config, admins, isAdmin, message, chats,
               counters, handler, webhooks, sent, out, startIndex, splits>>

----------------------------------------------------------------------------
(* Bounds *)

MaxTime     == 4    \* instants 0..MaxTime; 0 is the zero time.Time
MaxLen      == 6    \* pieces of a text handed to ParseMatchers (SpecList)
MaxTrimLen  == 5    \* pieces of a text handed to ParseMatchers (SpecTrim)
MaxOneLen   == 4    \* characters of a free text handed to ParseMatcher
MaxValLen   == 5    \* characters of a value behind a well-formed name and operator
MaxMatchers == 2    \* longest matcher list applied to a label set
MaxPatLen   == 3    \* characters of a pattern of a Regexp matcher (SpecRegexp)
MaxSubjLen  == 4    \* characters of a string such a matcher is applied to
MaxAlerts   == 2    \* alerts Alertmanager holds (SpecBot)
MaxSilences == 2    \* silences Alertmanager accepts before the last command
MaxOptions  == 2    \* options of a NewBot call, ids of a WithExtraAdmins option
maxLength   == 3    \* bytes of a part of a split message: the 4095 of the code, scaled
MaxOutLen   == 8    \* bytes of a message handed to splitMessage
MaxWebhooks == 2    \* webhook messages on the channel of Serve

----------------------------------------------------------------------------
(* Characters *)

QUOTE  == "\""
BSLASH == "\\"
LF     == "\n"
SP     == " "
COMMA  == ","
TAB    == "\t"
LBRACE == "{"
RBRACE == "}"
VT     == "<VT>"    \* the vertical tab, U+000B
BADBYTE   == "<FF>"    \* a byte that is not UTF-8
RuneError == "<FFFD>"  \* U+FFFD, what `range` decodes such a byte to

\* \s of the regular expression `re`
IsSpace(c) == c \in {SP, LF, "\t", "\r", "\f"}

\* unicode.IsSpace, which strings.TrimSpace trims: \s and the vertical tab
\* (and U+0085, U+00A0, which are not characters of the model)
IsUnicodeSpace(c) == IsSpace(c) \/ c = VT

\* [a-zA-Z_:] and [a-zA-Z0-9_:]
\* (the letters of the model are those of m, n, alertname and statuscode)
Letters        == {"a", "c", "d", "e", "l", "m", "n", "o", "r", "s", "t", "u"}
IsDigit(c)     == c \in {"0", "1", "2", "3", "4", "5", "6", "7", "8", "9"}
IsNameStart(c) == c \in Letters \cup {"_", ":"}
IsNameChar(c)  == IsNameStart(c) \/ IsDigit(c)

----------------------------------------------------------------------------
(* Strings *)

\* the sequences of at most n elements of A
SeqsUpTo(A, n) == UNION {[1..k -> A] : k \in 0..n}

RECURSIVE Flatten(_)
Flatten(ps) == IF Len(ps) = 0 THEN <<>> ELSE ps[1] \o Flatten(Tail(ps))

\* the texts made of at most n of the pieces P
Texts(P, n) == {Flatten(ps) : ps \in SeqsUpTo(P, n)}

\* utf8.ValidString
ValidString(str) == \A k \in 1..Len(str) : str[k] # BADBYTE

\* the rune `for _, r := range s` yields for the character c
DecodeRune(c) == IF c = BADBYTE THEN RuneError ELSE c

TrimPrefix(str, c) ==
    IF Len(str) > 0 /\ str[1] = c THEN SubSeq(str, 2, Len(str)) ELSE str

TrimSuffix(str, c) ==
    IF Len(str) > 0 /\ str[Len(str)] = c THEN SubSeq(str, 1, Len(str) - 1) ELSE str

\* the greedy \s* at the front of a text, and the one before its end
RECURSIVE TrimLeft(_)
TrimLeft(str) ==
    IF Len(str) > 0 /\ IsSpace(str[1]) THEN TrimLeft(Tail(str)) ELSE str

RECURSIVE TrimRight(_)
TrimRight(str) ==
    IF Len(str) > 0 /\ IsSpace(str[Len(str)])
    THEN TrimRight(SubSeq(str, 1, Len(str) - 1)) ELSE str

RECURSIVE TrimSpaceLeft(_)
TrimSpaceLeft(str) ==
    IF Len(str) > 0 /\ IsUnicodeSpace(str[1]) THEN TrimSpaceLeft(Tail(str)) ELSE str

RECURSIVE TrimSpaceRight(_)
TrimSpaceRight(str) ==
    IF Len(str) > 0 /\ IsUnicodeSpace(str[Len(str)])
    THEN TrimSpaceRight(SubSeq(str, 1, Len(str) - 1)) ELSE str

TrimSpace(str) == TrimSpaceRight(TrimSpaceLeft(str))

----------------------------------------------------------------------------
(* Silence lifecycle *)

SilenceStateExpired == "expired"
SilenceStateActive  == "active"
SilenceStatePending == "pending"

SilenceStates == {SilenceStateExpired, SilenceStateActive, SilenceStatePending}

\* cur is the value time.Now() returns inside the call (the local `current`).
\* A variant that tests the end of the window first:
CalcSilenceStateEndFirst(st, en, cur) ==
    IF ~(cur < en) THEN SilenceStateExpired
    ELSE IF cur < st THEN SilenceStatePending
    ELSE SilenceStateActive

CalcSilenceState(st, en, cur) ==
    IF cur < st THEN SilenceStatePending
    ELSE IF cur < en THEN SilenceStateActive
    ELSE SilenceStateExpired

\* A variant without the test for the zero time:
ResolvedNoZeroTest(sil, cur) == ~(sil.EndsAt > cur)

\* A variant with Before in the place of !After:
ResolvedBefore(sil, cur) ==
    IF sil.EndsAt = 0 THEN FALSE ELSE sil.EndsAt < cur

\* cur is the value time.Now() returns inside the call; the zero time.Time
\* is the instant 0
Resolved(sil, cur) ==
    IF sil.EndsAt = 0 THEN FALSE ELSE ~(sil.EndsAt > cur)

\* Resolved has not been called: a call is recorded with the instant
\* time.Now() gave it and the value it returned
NotResolved == [now |-> 0, value |-> FALSE]

----------------------------------------------------------------------------
(* Matchers *)

MatchEqual     == 0
MatchNotEqual  == MatchEqual + 1
MatchRegexp    == MatchNotEqual + 1
MatchNotRegexp == MatchRegexp + 1

MatchTypes == {MatchEqual, MatchNotEqual, MatchRegexp, MatchNotRegexp}

typeMap ==
    (<<"=">> :> MatchEqual) @@ (<<"!", "=">> :> MatchNotEqual) @@
    (<<"=", "~">> :> MatchRegexp) @@ (<<"!", "~">> :> MatchNotRegexp)

MatchTypeString(t) ==
    CASE t = MatchEqual     -> <<"=">>
      [] t = MatchNotEqual  -> <<"!", "=">>
      [] t = MatchRegexp    -> <<"=", "~">>
      [] t = MatchNotRegexp -> <<"!", "~">>

\* Shapes of results: a matcher, a (matcher, error) pair, a (list, error) pair
Matcher(t, n, v) == [Type |-> t, Name |-> n, Value |-> v]
NilMatcher       == [Type |-> -1, Name |-> <<>>, Value |-> <<>>]
NoErr            == [kind |-> "", arg |-> <<>>]
Errorf(k, a)     == [kind |-> k, arg |-> a]
Ok(m)            == [ok |-> TRUE,  m |-> m,          err |-> NoErr]
Fail(e)          == [ok |-> FALSE, m |-> NilMatcher, err |-> e]

ErrBadFormat     == "bad matcher format"
ErrNotUTF8       == "matcher value not valid UTF-8"
ErrUnescaped     == "matcher value contains unescaped double quote"
ErrRegexp        == "error parsing regexp"

----------------------------------------------------------------------------
(* regexp.Compile("^(?:" + v + ")$") and Regexp.MatchString, for patterns   *)
(* over the characters of the model: a backslash escapes the next           *)
(* character (backslash-n is a line feed, an escaped punctuation character  *)
(* is itself), '.' is any character but a line feed, '+' repeats the item   *)
(* before it, every other character is a literal.  A backslash at the end   *)
(* of v escapes the closing parenthesis of the wrapper and a '+' with no    *)
(* item to repeat has no argument: both fail to compile, and so does the    *)
(* escape of the letter m.  (Escaped digits, which are back references or   *)
(* octal codes, and escaped letters other than m and n occur in no pattern  *)
(* of the model.)                                                           *)

Lit(c)    == [kind |-> "lit", ch |-> c, plus |-> FALSE]
AnyNotNL  == [kind |-> "any", ch |-> ".", plus |-> FALSE]
BadRegexp == <<[kind |-> "bad", ch |-> "", plus |-> FALSE]>>

IsBadRegexp(items) == Len(items) > 0 /\ items[Len(items)].kind = "bad"

\* the items of pattern v from position k on (1-based), given the items before it
RECURSIVE RegexpItems(_, _, _)
RegexpItems(v, k, acc) ==
    IF k > Len(v) THEN acc
    ELSE IF v[k] = BSLASH THEN
        IF k = Len(v) THEN BadRegexp
        ELSE IF v[k + 1] = "n" THEN RegexpItems(v, k + 2, Append(acc, Lit(LF)))
        ELSE IF v[k + 1] = "m" \/ IsDigit(v[k + 1]) THEN BadRegexp
        ELSE RegexpItems(v, k + 2, Append(acc, Lit(v[k + 1])))
    ELSE IF v[k] = "+" THEN
        IF Len(acc) = 0 \/ acc[Len(acc)].plus THEN BadRegexp
        ELSE RegexpItems(v, k + 1,
                 [acc EXCEPT ![Len(acc)] = [@ EXCEPT !.plus = TRUE]])
    ELSE IF v[k] = "." THEN RegexpItems(v, k + 1, Append(acc, AnyNotNL))
    ELSE RegexpItems(v, k + 1, Append(acc, Lit(v[k])))

RegexpCompiles(v) == ~IsBadRegexp(RegexpItems(v, 1, <<>>))

ItemMatches(it, c) == IF it.kind = "any" THEN c # LF ELSE c = it.ch

\* a match that may end before the end of str (a pattern without its $)
RECURSIVE ItemsMatchPrefix(_, _)
ItemsMatchPrefix(items, str) ==
    IF Len(items) = 0 THEN TRUE
    ELSE /\ Len(str) > 0
         /\ ItemMatches(items[1], str[1])
         /\ \/ ItemsMatchPrefix(Tail(items), Tail(str))
            \/ items[1].plus /\ ItemsMatchPrefix(items, Tail(str))

\* the whole of str matches the items (the pattern is anchored by ^ and $)
RECURSIVE ItemsMatch(_, _)
ItemsMatch(items, str) ==
    IF Len(items) = 0 THEN Len(str) = 0
    ELSE /\ Len(str) > 0
         /\ ItemMatches(items[1], str[1])
         /\ \/ ItemsMatch(Tail(items), Tail(str))
            \/ items[1].plus /\ ItemsMatch(items, Tail(str))

RegexpMatchString(v, str) == ItemsMatch(RegexpItems(v, 1, <<>>), str)

NewMatcher(t, n, v) ==
    IF t \in {MatchRegexp, MatchNotRegexp} /\ ~RegexpCompiles(v)
    THEN Fail(Errorf(ErrRegexp, v))
    ELSE Ok(Matcher(t, n, v))

----------------------------------------------------------------------------
(* Matcher.String *)

\* a replacer without the pair for the backslash
OpenMetricsEscapeCharNoBackslash(c) ==
    CASE c = LF     -> <<BSLASH, "n">>
      [] c = QUOTE  -> <<BSLASH, QUOTE>>
      [] OTHER      -> <<c>>

OpenMetricsEscapeChar(c) ==
    CASE c = BSLASH -> <<BSLASH, BSLASH>>
      [] c = LF     -> <<BSLASH, "n">>
      [] c = QUOTE  -> <<BSLASH, QUOTE>>
      [] OTHER      -> <<c>>

RECURSIVE openMetricsEscape(_)
openMetricsEscape(str) ==
    IF Len(str) = 0 THEN <<>>
    ELSE OpenMetricsEscapeChar(str[1]) \o openMetricsEscape(Tail(str))

MatcherString(m) ==
    m.Name \o MatchTypeString(m.Type) \o <<QUOTE>> \o openMetricsEscape(m.Value) \o <<QUOTE>>

----------------------------------------------------------------------------
(* The regular expression `re` (matcher.go:40-44): blanks, a label name,   *)
(* blanks, one of the operators with "=~" tried before "=", blanks, a lazy  *)
(* match of any characters (line feeds included), blanks, end of text.      *)
(* Leading blanks are skipped, the name is the longest run of name          *)
(* characters, and the third group is what remains without the blanks       *)
(* around it.                                                               *)

RECURSIVE NameLen(_)
NameLen(str) ==
    IF Len(str) > 0 /\ IsNameChar(str[1]) THEN 1 + NameLen(Tail(str)) ELSE 0

NoSubmatch == [ok |-> FALSE, name |-> <<>>, op |-> <<>>, value |-> <<>>]

HasPrefix(str, p) == Len(str) >= Len(p) /\ SubSeq(str, 1, Len(p)) = p

\* an alternation (=|=~|!=|!~), with "=" before "=~"
ReOperatorEqualFirst(str) ==
    IF HasPrefix(str, <<"=">>) THEN <<"=">>
    ELSE IF HasPrefix(str, <<"=", "~">>) THEN <<"=", "~">>
    ELSE IF HasPrefix(str, <<"!", "=">>) THEN <<"!", "=">>
    ELSE IF HasPrefix(str, <<"!", "~">>) THEN <<"!", "~">>
    ELSE <<>>

\* the operator alternation (=~|=|!=|!~), tried left to right
ReOperator(str) ==
    IF HasPrefix(str, <<"=", "~">>) THEN <<"=", "~">>
    ELSE IF HasPrefix(str, <<"=">>) THEN <<"=">>
    ELSE IF HasPrefix(str, <<"!", "=">>) THEN <<"!", "=">>
    ELSE IF HasPrefix(str, <<"!", "~">>) THEN <<"!", "~">>
    ELSE <<>>

ReFindStringSubmatch(str) ==
    LET a  == TrimLeft(str)
        nl == IF Len(a) > 0 /\ IsNameStart(a[1]) THEN NameLen(a) ELSE 0
        b  == TrimLeft(SubSeq(a, nl + 1, Len(a)))
        op == ReOperator(b)
        c  == SubSeq(b, Len(op) + 1, Len(b))
    IN  IF nl = 0 \/ op = <<>> THEN NoSubmatch
        ELSE [ok |-> TRUE, name |-> SubSeq(a, 1, nl), op |-> op, value |-> TrimRight(TrimLeft(c))]

----------------------------------------------------------------------------
(* ParseMatcher *)

\* A loop whose default case of the escape switch writes the rune only
RECURSIVE UnescapeDropSpurious(_, _, _, _)
UnescapeDropSpurious(rawValue, k, value, esc) ==
    IF k > Len(rawValue) THEN <<TRUE, value>>
    ELSE LET r == rawValue[k] IN
        IF esc THEN
            IF r = "n" THEN UnescapeDropSpurious(rawValue, k + 1, Append(value, LF), FALSE)
            ELSE UnescapeDropSpurious(rawValue, k + 1, Append(value, r), FALSE)
        ELSE IF r = BSLASH THEN
            IF k < Len(rawValue) THEN UnescapeDropSpurious(rawValue, k + 1, value, TRUE)
            ELSE UnescapeDropSpurious(rawValue, k + 1, Append(value, BSLASH), FALSE)
        ELSE IF r = QUOTE THEN
            IF k < Len(rawValue) THEN <<FALSE, <<>>>>
            ELSE UnescapeDropSpurious(rawValue, k + 1, value, FALSE)
        ELSE UnescapeDropSpurious(rawValue, k + 1, Append(value, r), FALSE)

\* A loop that drops every unescaped double quote, wherever it stands
RECURSIVE UnescapeAnyQuote(_, _, _, _)
UnescapeAnyQuote(rawValue, k, value, esc) ==
    IF k > Len(rawValue) THEN <<TRUE, value>>
    ELSE LET r == rawValue[k] IN
        IF esc THEN
            IF r = "n" THEN UnescapeAnyQuote(rawValue, k + 1, Append(value, LF), FALSE)
            ELSE IF r = QUOTE \/ r = BSLASH
                 THEN UnescapeAnyQuote(rawValue, k + 1, Append(value, r), FALSE)
            ELSE UnescapeAnyQuote(rawValue, k + 1, value \o <<BSLASH, r>>, FALSE)
        ELSE IF r = BSLASH THEN
            IF k < Len(rawValue) THEN UnescapeAnyQuote(rawValue, k + 1, value, TRUE)
            ELSE UnescapeAnyQuote(rawValue, k + 1, Append(value, BSLASH), FALSE)
        ELSE IF r = QUOTE THEN UnescapeAnyQuote(rawValue, k + 1, value, FALSE)
        ELSE UnescapeAnyQuote(rawValue, k + 1, Append(value, r), FALSE)

\* The loop over rawValue from index k (1-based): the value built so far and
\* the escaped flag.  Returns <<TRUE, value>> or <<FALSE, <<>>>> on the
\* unescaped double quote.
RECURSIVE Unescape(_, _, _, _)
Unescape(rawValue, k, value, esc) ==
    IF k > Len(rawValue) THEN <<TRUE, value>>
    ELSE LET r == rawValue[k] IN
        IF esc THEN
            IF r = "n" THEN Unescape(rawValue, k + 1, Append(value, LF), FALSE)
            ELSE IF r = QUOTE \/ r = BSLASH
                 THEN Unescape(rawValue, k + 1, Append(value, r), FALSE)
            ELSE Unescape(rawValue, k + 1, value \o <<BSLASH, r>>, FALSE)
        ELSE IF r = BSLASH THEN
            IF k < Len(rawValue) THEN Unescape(rawValue, k + 1, value, TRUE)
            ELSE Unescape(rawValue, k + 1, Append(value, BSLASH), FALSE)
        ELSE IF r = QUOTE THEN
            IF k < Len(rawValue) THEN <<FALSE, <<>>>>
            ELSE Unescape(rawValue, k + 1, value, FALSE)
        ELSE Unescape(rawValue, k + 1, Append(value, r), FALSE)

ParseMatcher(str) ==
    LET sub      == ReFindStringSubmatch(str)
        rawValue == TrimPrefix(sub.value, QUOTE)
        un       == Unescape(rawValue, 1, <<>>, FALSE)
    IN  IF ~sub.ok THEN Fail(Errorf(ErrBadFormat, str))
        ELSE IF ~ValidString(rawValue) THEN Fail(Errorf(ErrNotUTF8, rawValue))
        ELSE IF ~un[1] THEN Fail(Errorf(ErrUnescaped, rawValue))
        ELSE NewMatcher(typeMap[sub.op], sub.name, un[2])

----------------------------------------------------------------------------
(* ParseMatchers *)

\* the locals of the scanner before the first rune
ScanInit == [insideQuotes |-> FALSE, escaped |-> FALSE, token |-> <<>>, tokens |-> <<>>]

\* one iteration of `for _, r := range s`
ScanRune(st, r) ==
    IF r = COMMA THEN
        IF ~st.insideQuotes
        THEN [st EXCEPT !.tokens = Append(@, st.token), !.token = <<>>]
        ELSE [st EXCEPT !.token = Append(@, r)]
    ELSE IF r = QUOTE THEN
        IF ~st.escaped
        THEN [st EXCEPT !.insideQuotes = ~@, !.token = Append(@, r)]
        ELSE [st EXCEPT !.escaped = FALSE, !.token = Append(@, r)]
    ELSE IF r = BSLASH THEN
        [st EXCEPT !.escaped = ~@, !.token = Append(@, r)]
    ELSE
        [st EXCEPT !.escaped = FALSE, !.token = Append(@, r)]

RECURSIVE ScanFrom(_, _, _)
ScanFrom(str, k, st) ==
    IF k > Len(str) THEN st ELSE ScanFrom(str, k + 1, ScanRune(st, DecodeRune(str[k])))

\* a last token that is kept even when blank
LastTokenKeepBlank(toks, tok) == Append(toks, TrimSpace(tok))

\* the tokens after the loop: the last token is kept, trimmed, unless blank
LastToken(toks, tok) ==
    IF TrimSpace(tok) # <<>> THEN Append(toks, TrimSpace(tok)) ELSE toks

\* the braces are trimmed only as a pair
TrimBracesPaired(str) ==
    IF Len(str) >= 2 /\ str[1] = LBRACE /\ str[Len(str)] = RBRACE
    THEN SubSeq(str, 2, Len(str) - 1) ELSE str

\* only the leading brace is trimmed
TrimBracesPrefixOnly(str) == TrimPrefix(str, LBRACE)

\* the two trims that open ParseMatchers
TrimBraces(str) == TrimSuffix(TrimPrefix(str, LBRACE), RBRACE)

Tokenize(str) ==
    LET st == ScanFrom(TrimBraces(str), 1, ScanInit)
    IN  LastToken(st.tokens, st.token)

\* a (matchers, error) result
OkList(l)   == [ok |-> TRUE,  ms |-> l,    err |-> NoErr]
FailList(e) == [ok |-> FALSE, ms |-> <<>>, err |-> e]

\* `for _, token := range tokens` from index k (1-based)
RECURSIVE ParseTokens(_, _, _)
ParseTokens(toks, k, acc) ==
    IF k > Len(toks) THEN OkList(acc)
    ELSE LET r == ParseMatcher(toks[k])
         IN  IF ~r.ok THEN FailList(r.err)
             ELSE ParseTokens(toks, k + 1, Append(acc, r.m))

ParseMatchers(str) == ParseTokens(Tokenize(str), 1, <<>>)

----------------------------------------------------------------------------
(* Matcher.Matches and Matchers.Matches *)

\* lset[model.LabelName(name)]: the zero value of a missing key is ""
LabelValue(ls, name) == IF name \in DOMAIN ls THEN ls[name] ELSE <<>>

MatcherMatches(m, str) ==
    CASE m.Type = MatchEqual     -> str = m.Value
      [] m.Type = MatchNotEqual  -> str # m.Value
      [] m.Type = MatchRegexp    -> RegexpMatchString(m.Value, str)
      [] m.Type = MatchNotRegexp -> ~RegexpMatchString(m.Value, str)

\* a loop that returns the verdict of the first matcher it meets
MatchersMatchesFirstOnly(l, ls, k) ==
    IF k > Len(l) THEN TRUE ELSE MatcherMatches(l[k], LabelValue(ls, l[k].Name))

\* `for _, m := range ms` from index k (1-based), with its early return
RECURSIVE MatchersMatchesFrom(_, _, _)
MatchersMatchesFrom(l, ls, k) ==
    IF k > Len(l) THEN TRUE
    ELSE IF ~MatcherMatches(l[k], LabelValue(ls, l[k].Name)) THEN FALSE
    ELSE MatchersMatchesFrom(l, ls, k + 1)

MatchersMatches(l, ls) == MatchersMatchesFrom(l, ls, 1)

----------------------------------------------------------------------------
(* Alerts: their label sets, as ListAlerts decodes them, their rendering    *)
(* alert.Labels.String() and their fingerprints (bot.go:742-748)            *)

AlertName == <<"a", "l", "e", "r", "t", "n", "a", "m", "e">>

\* strconv.Quote, which the verb %q applies to a label value, on a character
\* (the values of the model hold no other character that it escapes)
QuoteChar(c) ==
    CASE c = BSLASH -> <<BSLASH, BSLASH>>
      [] c = QUOTE  -> <<BSLASH, QUOTE>>
      [] c = LF     -> <<BSLASH, "n">>
      [] c = TAB    -> <<BSLASH, "t">>
      [] OTHER      -> <<c>>

RECURSIVE QuoteChars(_)
QuoteChars(v) == IF Len(v) = 0 THEN <<>> ELSE QuoteChar(v[1]) \o QuoteChars(Tail(v))

Quote(v) == <<QUOTE>> \o QuoteChars(v) \o <<QUOTE>>

\* strings.Join
RECURSIVE Join(_, _)
Join(elems, sep) ==
    IF Len(elems) = 0 THEN <<>>
    ELSE IF Len(elems) = 1 THEN elems[1]
    ELSE elems[1] \o sep \o Join(Tail(elems), sep)

\* the label names of the model, in the order sort.Strings gives their pairs
SortedLabelNames == <<AlertName, <<"n">>>>

\* the pairs name="value" of a label set, sorted, from the k-th name on
RECURSIVE LabelPairs(_, _)
LabelPairs(ls, k) ==
    IF k > Len(SortedLabelNames) THEN <<>>
    ELSE LET name == SortedLabelNames[k]
         IN  IF name \in DOMAIN ls
             THEN <<name \o <<"=">> \o Quote(ls[name])>> \o LabelPairs(ls, k + 1)
             ELSE LabelPairs(ls, k + 1)

\* model.LabelSet.String(): {name="value", name="value"}
LabelSetString(ls) == <<LBRACE>> \o Join(LabelPairs(ls, 1), <<COMMA, SP>>) \o <<RBRACE>>

\* the label sets the alerts of the model have: a plain one, one whose
\* values hold a comma, a double quote, a backslash and a blank, and others
\* whose values hold a line feed, braces, a tab
AlertPool ==
    << (AlertName :> <<"n">>),
       (AlertName :> <<"n", COMMA, QUOTE>>) @@ (<<"n">> :> <<BSLASH, SP>>),
       (AlertName :> <<"n", LF, "n">>) @@ (<<"n">> :> <<BSLASH, "n">>),
       (AlertName :> <<RBRACE, COMMA, LBRACE>>) @@ (<<"n">> :> <<RBRACE>>),
       (AlertName :> <<"n", TAB, "n">>) >>

\* the label sets of the alerts Alertmanager holds when several commands
\* are tried on it
PlainPool == {AlertPool[1], AlertPool[2]}

DigitChars == <<"0", "1", "2", "3", "4", "5", "6", "7", "8", "9">>

\* alert.Fingerprint().String(): a hash of the label set in hexadecimal,
\* taken to differ for different label sets; here "f" and the place of the
\* label set in AlertPool
Fingerprint(ls) ==
    <<"f", DigitChars[(CHOOSE k \in 1..Len(AlertPool) : AlertPool[k] = ls) + 1]>>

----------------------------------------------------------------------------
(* Requests to Alertmanager (alerts.go, retry.go)                           *)
(*                                                                          *)
(* The outcome of an HTTP request, the error of ListAlerts and the values   *)
(* the logger's Log returns are given from outside: resp is the outcome of  *)
(* client.Do, lgs the values of the first and the second call of            *)
(* level.Error(logger).Log in a handler (the error of the logger itself:    *)
(* nil when the line was written).                                          *)

StatusOK == 200

NoResponse   == [kind |-> "none",     code |-> 0]   \* no request was made
SendFailed   == [kind |-> "failed",   code |-> 0]   \* client.Do returned an error
Answered(c)  == [kind |-> "answered", code |-> c]
NilResponse  == [kind |-> "nil",      code |-> 0]   \* a nil *http.Response

ErrGet       == "GET alerts failed"
ErrLog       == "log line not written"
ErrPanic     == "panic: nil pointer dereference"
ErrNoAlerts  == "no alerts found right now"
ErrNoMatches == "no matches found for silence!"
ErrNotify    == "telegram: notify failed"

\* ListAlerts: the error of httpRetry or of the decoder, or the alerts
ListAlerts(al, failed) ==
    IF failed THEN [ok |-> FALSE, alerts |-> <<>>, err |-> Errorf(ErrGet, <<>>)]
    ELSE [ok |-> TRUE, alerts |-> al, err |-> NoErr]

\* request: the response and the error it returns; on a failure the error
\* is what Log returned
request(code, resp, lg) ==
    IF resp.kind = "failed" THEN [response |-> NilResponse, err |-> lg]
    ELSE IF resp.code # code THEN [response |-> resp, err |-> lg]
    ELSE [response |-> resp, err |-> NoErr]

\* PostSilence and DeleteSuperSilence after the URL and the payload are
\* assembled: the error returned (or the panic of `defer
\* response.Body.Close()` on a nil response) and the values Log returned
RequestAndClose(code, resp, lgs) ==
    LET r == request(code, resp, lgs[1])
    IN  IF r.err # NoErr THEN [ret |-> lgs[2], logged |-> lgs]
        ELSE IF r.response = NilResponse
             THEN [ret |-> Errorf(ErrPanic, <<>>), logged |-> <<lgs[1]>>]
        ELSE IF resp.code # code THEN [ret |-> NoErr, logged |-> <<lgs[1]>>]
        ELSE [ret |-> NoErr, logged |-> <<>>]

PostSilence(sil, resp, lgs) == RequestAndClose(StatusOK, resp, lgs)

DeleteSuperSilence(silenceID, resp, lgs) == RequestAndClose(StatusOK, resp, lgs)

----------------------------------------------------------------------------
(* Bot.silence and Bot.silenceAll (bot.go:716-806)                          *)
(*                                                                          *)
(* Instants and durations are counted in hours.  env gives what a call      *)
(* meets outside the bot: env.failed, whether ListAlerts fails; env.ts, the *)
(* values of the six calls of time.Now() that assemble a silence, in the    *)
(* order of the calls; env.resp and env.lgs, as above.                      *)

Hour            == 1
TwoHours        == 2 * Hour
FortyEightHours == 48 * Hour
TwoWeeks        == 336 * Hour
DefaultTime     == 8 * Hour

SuperMatch == AlertName \o <<"=", "~", QUOTE, ".", "+", QUOTE>>

\* a silence whose EndsAt is the instant read, without the duration
NewSilenceNoDuration(mtchrs, duration, ts) ==
    [ID        |-> "",
     Matchers  |-> mtchrs,
     StartsAt  |-> ts[1],
     EndsAt    |-> ts[2],
     UpdatedAt |-> ts[3],
     CreatedBy |-> "alertmanager-bot",
     Comment   |-> "Enacted by administrator command",
     Status    |-> [State |-> CalcSilenceState(ts[4], ts[5] + duration, ts[6])]]

\* the composite literal &vendor.Silence{...}: each time.Now() is a call of
\* its own, and CalcSilenceState makes the sixth
NewSilence(mtchrs, duration, ts) ==
    [ID        |-> "",
     Matchers  |-> mtchrs,
     StartsAt  |-> ts[1],
     EndsAt    |-> ts[2] + duration,
     UpdatedAt |-> ts[3],
     CreatedBy |-> "alertmanager-bot",
     Comment   |-> "Enacted by administrator command",
     Status    |-> [State |-> CalcSilenceState(ts[4], ts[5] + duration, ts[6])]]

\* what a call did: the error it returns, the error ListAlerts gave it, the
\* silences it handed to PostSilence, the outcome of the request and the
\* values Log returned
NoPost(e, le) ==
    [ret |-> e, listErr |-> le, posts |-> <<>>, response |-> NoResponse, logged |-> <<>>]

Posted(sil, env) ==
    LET r == PostSilence(sil, env.resp, env.lgs)
    IN  [ret |-> r.ret, listErr |-> NoErr, posts |-> <<sil>>, response |-> env.resp,
         logged |-> r.logged]

\* a loop that posts a silence for every alert with the fingerprint
RECURSIVE SilenceLoopPostEach(_, _, _, _, _, _)
SilenceLoopPostEach(al, k, count, fingerPrint, duration, env) ==
    IF k > Len(al) THEN
        IF count = Len(al) THEN NoPost(Errorf(ErrNoMatches, <<>>), NoErr)
        ELSE NoPost(NoErr, NoErr)
    ELSE IF Fingerprint(al[k]) = fingerPrint THEN
        LET parsed == ParseMatchers(LabelSetString(al[k]))
            first  == Posted(NewSilence(parsed.ms, duration, env.ts), env)
            rest   == SilenceLoopPostEach(al, k + 1, count, fingerPrint, duration, env)
        IN  [first EXCEPT !.posts = @ \o rest.posts]
    ELSE SilenceLoopPostEach(al, k + 1, count + 1, fingerPrint, duration, env)

\* `for _, alert := range alerts` from index k (1-based), and what follows it
RECURSIVE SilenceLoop(_, _, _, _, _, _)
SilenceLoop(al, k, count, fingerPrint, duration, env) ==
    IF k > Len(al) THEN
        IF count = Len(al) THEN NoPost(Errorf(ErrNoMatches, <<>>), NoErr)
        ELSE NoPost(NoErr, NoErr)
    ELSE IF Fingerprint(al[k]) = fingerPrint THEN
        LET parsed == ParseMatchers(LabelSetString(al[k]))
        IN  IF ~parsed.ok THEN NoPost(parsed.err, NoErr)
            ELSE Posted(NewSilence(parsed.ms, duration, env.ts), env)
    ELSE SilenceLoop(al, k + 1, count + 1, fingerPrint, duration, env)

\* a silence that does not test for an empty list of alerts
silenceNoEmptyTest(fingerPrint, duration, al, env) ==
    LET l == ListAlerts(al, env.failed)
    IN  IF ~l.ok THEN NoPost(l.err, l.err)
        ELSE SilenceLoop(l.alerts, 1, 0, fingerPrint, duration, env)

\* al: the alerts Alertmanager holds
silence(fingerPrint, duration, al, env) ==
    LET l == ListAlerts(al, env.failed)
    IN  IF ~l.ok THEN NoPost(l.err, l.err)
        ELSE IF Len(l.alerts) = 0 THEN NoPost(Errorf(ErrNoAlerts, <<>>), NoErr)
        ELSE SilenceLoop(l.alerts, 1, 0, fingerPrint, duration, env)

\* the error of ParseMatchers is dropped, its list is kept
silenceAll(duration, env) ==
    Posted(NewSilence(ParseMatchers(SuperMatch).ms, duration, env.ts), env)

\* strconv.Atoi, on texts short enough for the value to fit: an optional
\* sign and decimal digits; 0 for any other text
DigitValue(c) == CHOOSE d \in 0..9 : DigitChars[d + 1] = c

RECURSIVE Digits(_, _)
Digits(txt, acc) ==
    IF Len(txt) = 0 THEN acc ELSE Digits(Tail(txt), 10 * acc + DigitValue(txt[1]))

Atoi(txt) ==
    LET signed == Len(txt) > 0 /\ txt[1] \in {"+", "-"}
        body   == IF signed THEN Tail(txt) ELSE txt
    IN  IF Len(body) = 0 \/ \E k \in 1..Len(body) : ~IsDigit(body[k]) THEN 0
        ELSE IF signed /\ txt[1] = "-" THEN 0 - Digits(body, 0)
        ELSE Digits(body, 0)

----------------------------------------------------------------------------
(* NewBot, its options and isAdminID (bot.go:80-181, 808-812)               *)

\* sort.Ints: the elements in ascending order
RECURSIVE Insert(_, _)
Insert(sorted, x) ==
    IF Len(sorted) = 0 \/ x <= sorted[1] THEN <<x>> \o sorted
    ELSE <<sorted[1]>> \o Insert(Tail(sorted), x)

RECURSIVE SortInts(_)
SortInts(a) == IF Len(a) = 0 THEN <<>> ELSE Insert(SortInts(Tail(a)), a[1])

\* sort.Search(len(a), func(h) { return a[h] >= x }) between the 0-based
\* indices lo and hi: a binary search, whatever the order of a
RECURSIVE Search(_, _, _, _)
Search(a, x, lo, hi) ==
    IF lo < hi
    THEN LET h == (lo + hi) \div 2
         IN  IF ~(a[h + 1] >= x) THEN Search(a, x, h + 1, hi) ELSE Search(a, x, lo, h)
    ELSE lo

SearchInts(a, x) == Search(a, x, 0, Len(a))

isAdminID(adm, id) ==
    LET k == SearchInts(adm, id) IN k < Len(adm) /\ adm[k + 1] = id

\* an option that appends the ids and does not sort
WithExtraAdminsNoSort(adm, ids) == adm \o ids

\* b.admins after the option WithExtraAdmins(ids...)
WithExtraAdmins(adm, ids) == SortInts(adm \o ids)

\* an option is WithExtraAdmins with its ids, or one of the options that
\* leave b.admins alone (WithAddr stands for them)
ExtraAdmins(ids) == [kind |-> "WithExtraAdmins", ids |-> ids]
OtherOption      == [kind |-> "WithAddr", ids |-> <<>>]

\* `for _, opt := range opts { opt(b) }` from the k-th option on
RECURSIVE ApplyOptions(_, _, _)
ApplyOptions(adm, opts, k) ==
    IF k > Len(opts) THEN adm
    ELSE IF opts[k].kind = "WithExtraAdmins"
    THEN ApplyOptions(WithExtraAdmins(adm, opts[k].ids), opts, k + 1)
    ELSE ApplyOptions(adm, opts, k + 1)

\* b.admins of the bot NewBot returns
NewBot(admin, opts) == ApplyOptions(<<admin>>, opts, 1)

----------------------------------------------------------------------------
(* Bot.splitMessage (bot.go:828-856)                                        *)
(*                                                                          *)
(* Indices are 0-based as in the code; str[a:b] is SubSeq(str, a + 1, b).   *)

BlankLine == <<LF, LF>>

\* strings.LastIndex from the index k down: the index of the last instance
\* of sub, or -1
RECURSIVE LastIndexFrom(_, _, _)
LastIndexFrom(txt, sub, k) ==
    IF k < 0 THEN -1
    ELSE IF SubSeq(txt, k + 1, k + Len(sub)) = sub THEN k
    ELSE LastIndexFrom(txt, sub, k - 1)

LastIndex(txt, sub) == LastIndexFrom(txt, sub, Len(txt) - Len(sub))

\* a window one byte longer than maxLength
StrBoundsWide(txt, st) == SubSeq(txt, st + 1, st + maxLength + 1)

\* strBounds := str[startIndex:(startIndex + maxLength)]
StrBounds(txt, st) == SubSeq(txt, st + 1, st + maxLength)

\* one iteration of the loop: the part it appends and the startIndex it leaves
Iteration(txt, st) ==
    LET strBounds == StrBounds(txt, st)
        lastIndex == LastIndex(strBounds, BlankLine)
    IN  IF lastIndex # -1
        THEN [split |-> SubSeq(txt, st + 1, st + lastIndex), startIndex |-> st + lastIndex]
        ELSE [split |-> strBounds, startIndex |-> st + maxLength]

\* the loop from startIndex = st with the parts acc.  An iteration that
\* leaves startIndex as it found it is followed by the same iteration for
\* ever: the call does not return.
RECURSIVE SplitLoop(_, _, _)
SplitLoop(txt, st, acc) ==
    IF st + maxLength < Len(txt)
    THEN LET it == Iteration(txt, st)
         IN  IF it.startIndex = st THEN [returns |-> FALSE, splits |-> acc]
             ELSE SplitLoop(txt, it.startIndex, Append(acc, it.split))
    ELSE [returns |-> TRUE, splits |-> acc]

splitMessage(txt) ==
    IF Len(txt) > maxLength THEN SplitLoop(txt, 0, <<>>)
    ELSE [returns |-> TRUE, splits |-> <<txt>>]

----------------------------------------------------------------------------
(* Bot.Serve (bot.go:209-256)                                               *)

\* b.telegram.Send of the parts to one chat, the n-th send of the message
\* first; failing holds the numbers of the sends that return an error
RECURSIVE SendParts(_, _, _, _)
SendParts(chat, parts, n, failing) ==
    IF Len(parts) = 0 THEN <<>>
    ELSE <<[chat |-> chat, part |-> parts[1], ok |-> n \notin failing]>>
             \o SendParts(chat, Tail(parts), n + 1, failing)

\* `for _, chat := range chats`, with the inner loop over the parts
RECURSIVE SendChats(_, _, _, _)
SendChats(chs, parts, n, failing) ==
    IF Len(chs) = 0 THEN <<>>
    ELSE SendParts(chs[1], parts, n, failing)
             \o SendChats(Tail(chs), parts, n + Len(parts), failing)

----------------------------------------------------------------------------
(* Bot.HandleCommands (bot.go:263-338)                                      *)

commandStart              == <<"/", "s", "t", "a", "r", "t">>
commandStop               == <<"/", "s", "t", "o", "p">>
commandHelp               == <<"/", "h", "e", "l", "p">>
commandChats              == <<"/", "c", "h", "a", "t", "s">>
commandStatus             == <<"/", "s", "t", "a", "t", "u", "s">>
commandAlerts             == <<"/", "a", "l", "e", "r", "t", "s">>
commandSilences           == <<"/", "s", "i", "l", "e", "n", "c", "e", "s">>
commandSilenceFor2Hours   == <<"/", "s", "2", "h">>
commandSilenceFor48Hours  == <<"/", "s", "4", "8", "h">>
commandSilenceFor2Weeks   == <<"/", "s", "2", "w">>
commandServiceMaintenance == <<"/", "s", "m">>
commandSilence            == <<"/", "s", "i", "l", "e", "n", "c", "e">>
commandFingerprint        == <<"/", "f", "i", "n", "g", "e", "r", "p", "r", "i", "n", "t">>
commandAdmins             == <<"/", "a", "d", "m", "i", "n", "s">>

\* the map `commands`: the handler of a command text, and the text as the
\* label of its counter
Command(txt, label, h) == [text |-> txt, label |-> label, handler |-> h]
commands ==
    {Command(commandStart, "/start", "handleStart"),
     Command(commandStop, "/stop", "handleStop"),
     Command(commandHelp, "/help", "handleHelp"),
     Command(commandChats, "/chats", "handleChats"),
     Command(commandStatus, "/status", "handleStatus"),
     Command(commandAlerts, "/alerts", "handleAlerts"),
     Command(commandSilences, "/silences", "handleSilences"),
     Command(commandSilence, "/silence", "handleSilence"),
     Command(commandSilenceFor2Hours, "/s2h", "handleSilenceTwoHours"),
     Command(commandSilenceFor48Hours, "/s48h", "handleSilenceFortyEightHours"),
     Command(commandSilenceFor2Weeks, "/s2w", "handleSilenceTwoWeeks"),
     Command(commandServiceMaintenance, "/sm", "handleServiceMaintenance"),
     Command(commandFingerprint, "/fingerprint", "handleFingerprint"),
     Command(commandAdmins, "/admins", "handleAdminsList")}

\* b.telegram.Me.Username and commandSuffix
Username      == <<"b">>
commandSuffix == <<"@">> \o Username

\* strings.Replace(txt, old, "", -1), for a non-empty old
RECURSIVE RemoveAll(_, _)
RemoveAll(txt, old) ==
    IF Len(txt) < Len(old) THEN txt
    ELSE IF SubSeq(txt, 1, Len(old)) = old
    THEN RemoveAll(SubSeq(txt, Len(old) + 1, Len(txt)), old)
    ELSE <<txt[1]>> \o RemoveAll(Tail(txt), old)

\* The text of a message is kept split at its blanks.  The suffix holds no
\* blank, so the first part of the text without the suffix is the first
\* part of the text, without the suffix.
CommandName(fs) == IF Len(fs) = 0 THEN <<>> ELSE RemoveAll(fs[1], commandSuffix)

\* commandsCounter.WithLabelValues(label).Add(n); a counter that was never
\* touched does not exist
Add(cs, label, n) ==
    [l \in DOMAIN cs \cup {label} |->
        (IF l \in DOMAIN cs THEN cs[l] ELSE 0) + (IF l = label THEN n ELSE 0)]

\* `for command := range commands { ...Add(0) }`, in some order of the labels
RECURSIVE InitCounters(_, _)
InitCounters(cs, labels) ==
    IF labels = {} THEN cs
    ELSE LET l == CHOOSE x \in labels : TRUE
         IN  InitCounters(Add(cs, l, 0), labels \ {l})

\* a test that lets /start through as well
ForbiddenButStart(adm, sender, commandName) ==
    /\ ~isAdminID(adm, sender)
    /\ ~(commandName = commandHelp \/ commandName = commandStatus
            \/ commandName = commandChats \/ commandName = commandStart)

\* the test that drops a message
Forbidden(adm, sender, commandName) ==
    /\ ~isAdminID(adm, sender)
    /\ ~(commandName = commandHelp \/ commandName = commandStatus
            \/ commandName = commandChats)

\* the chat store: Add of a chat that is in it and Remove of one that is not
\* leave it as it is
StoreAdd(chs, chat) ==
    IF \E k \in 1..Len(chs) : chs[k] = chat THEN chs ELSE Append(chs, chat)

RECURSIVE StoreRemove(_, _)
StoreRemove(chs, chat) ==
    IF Len(chs) = 0 THEN <<>>
    ELSE IF chs[1] = chat THEN StoreRemove(Tail(chs), chat)
    ELSE <<chs[1]>> \o StoreRemove(Tail(chs), chat)

----------------------------------------------------------------------------
(* State machine *)

NoResult == Fail(NoErr)
NoReply  == [msg |-> "", hours |-> 0, err |-> NoErr]

TimeIdle  == /\ start = 0 /\ end = 0 /\ now = 1 /\ current = 0 /\ state = ""
             /\ stored = "" /\ resolved = NotResolved
ParseIdle == /\ s = <<>> /\ i = 0 /\ insideQuotes = FALSE /\ escaped = FALSE
             /\ token = <<>> /\ tokens = <<>> /\ j = 0 /\ matchers = <<>>
             /\ err = NoErr /\ pm = NoResult /\ rt = NoResult
MatchIdle == ms = <<>> /\ lset = <<>> /\ matched = FALSE /\ subject = <<>>
\* before NewBot, a message, a webhook, a call of splitMessage
NoConfig   == [admin |-> 0, opts |-> <<>>]
NoIsAdmin  == [id |-> 0, value |-> FALSE]
NoMessage  == [Sender |-> 0, Text |-> <<>>, Service |-> FALSE, Notify |-> NoErr]
NoCounters == [c \in {} |-> 0]

TeleIdle  == /\ config = NoConfig /\ admins = <<>> /\ isAdmin = NoIsAdmin
             /\ message = NoMessage /\ chats = <<>> /\ counters = NoCounters
             /\ handler = "" /\ webhooks = <<>> /\ sent = <<>>
             /\ out = <<>> /\ startIndex = 0 /\ splits = <<>>
BotIdle   == /\ alerts = <<>> /\ fields = <<>> /\ listErr = NoErr /\ posts = <<>>
             /\ deletes = <<>> /\ response = NoResponse /\ logged = <<>>
             /\ ret = NoErr /\ reply = NoReply /\ silenceIDs = <<>>

\* The pieces the texts are made of.  A list text is made of clause heads
\* "n=" and single characters: SpecList has the characters of quoting and
\* escaping, SpecTrim those of the trims (braces, blanks, the vertical tab).
ClauseHead == <<"n", "=">>
ListPieces == {ClauseHead, <<"n">>, <<QUOTE>>, <<BSLASH>>, <<COMMA>>, <<SP>>}
TrimPieces == {ClauseHead, <<"n">>, <<QUOTE>>, <<COMMA>>, <<SP>>, <<VT>>, <<LBRACE>>, <<RBRACE>>}

\* A text for ParseMatcher is free text, or a value behind a well-formed
\* name and operator.
AlphaOne   == {"n", "=", "!", "~", QUOTE, BSLASH, SP, LF, "."}
AlphaValue == {"n", QUOTE, BSLASH, SP, LF, COMMA}
Heads      == {<<"n", "=">>, <<"n", "!", "=">>, <<"n", "=", "~">>, <<"n", "!", "~">>,
               <<"n", "=", QUOTE>>, <<SP, "n", SP, "=", "~", SP, QUOTE>>}

\* ---- silence lifecycle ----

InitState ==
    /\ start \in 0..MaxTime /\ end \in 0..MaxTime /\ now \in 1..MaxTime
    /\ current = 0 /\ state = ""
    /\ stored \in SilenceStates \cup {""} /\ resolved = NotResolved
    /\ text = <<>> /\ pc = "start" /\ ParseIdle /\ MatchIdle /\ BotIdle /\ TeleIdle

CalcState ==
    /\ current' = now
    /\ state' = CalcSilenceState(start, end, now)
    /\ UNCHANGED <<start, end, now, stored, resolved, parseVars, matchVars, botVars, teleVars>>

Tick ==
    /\ now < MaxTime
    /\ now' = now + 1
    /\ UNCHANGED <<start, end, current, state, stored, resolved, parseVars, matchVars, botVars, teleVars>>

ResolvedCall ==
    /\ resolved' = [now   |-> now,
                    value |-> Resolved([StartsAt |-> start, EndsAt |-> end,
                                        Status |-> [State |-> stored]], now)]
    /\ UNCHANGED <<start, end, now, current, state, stored, parseVars, matchVars, botVars, teleVars>>

NextState == CalcState \/ Tick \/ ResolvedCall
SpecState == InitState /\ [][NextState]_vars

\* ---- ParseMatchers, one loop iteration per step ----

InitList ==
    /\ text \in Texts(ListPieces, MaxLen) /\ pc = "start"
    /\ TimeIdle /\ ParseIdle /\ MatchIdle /\ BotIdle /\ TeleIdle

InitTrim ==
    /\ text \in Texts(TrimPieces, MaxTrimLen) /\ pc = "start"
    /\ TimeIdle /\ ParseIdle /\ MatchIdle /\ BotIdle /\ TeleIdle

ParseMatchersBegin ==
    /\ pc = "start"
    /\ s' = TrimBraces(text)
    /\ i' = 0
    /\ insideQuotes' = ScanInit.insideQuotes /\ escaped' = ScanInit.escaped
    /\ token' = ScanInit.token /\ tokens' = ScanInit.tokens
    /\ pc' = "scan"
    /\ UNCHANGED <<text, j, matchers, err, pm, rt, timeVars, matchVars, botVars, teleVars>>

ScanStep ==
    /\ pc = "scan" /\ i < Len(s)
    /\ LET st == ScanRune([insideQuotes |-> insideQuotes, escaped |-> escaped,
                           token |-> token, tokens |-> tokens], DecodeRune(s[i + 1]))
       IN  /\ insideQuotes' = st.insideQuotes /\ escaped' = st.escaped
           /\ token' = st.token /\ tokens' = st.tokens
    /\ i' = i + 1
    /\ UNCHANGED <<text, pc, s, j, matchers, err, pm, rt, timeVars, matchVars, botVars, teleVars>>

ScanEnd ==
    /\ pc = "scan" /\ i = Len(s)
    /\ tokens' = LastToken(tokens, token)
    /\ j' = 0
    /\ pc' = "tokens"
    /\ UNCHANGED <<text, s, i, insideQuotes, escaped, token, matchers, err, pm, rt,
                   timeVars, matchVars, botVars, teleVars>>

\* a token loop that returns, with the error, the matchers parsed so far
ParseTokenKeepPartial ==
    /\ pc = "tokens" /\ j < Len(tokens)
    /\ LET r == ParseMatcher(tokens[j + 1])
       IN  IF r.ok
           THEN /\ matchers' = Append(matchers, r.m)
                /\ j' = j + 1
                /\ UNCHANGED <<pc, err>>
           ELSE /\ err' = r.err
                /\ pc' = "done"
                /\ UNCHANGED <<j, matchers>>
    /\ UNCHANGED <<text, scanVars, pm, rt, timeVars, matchVars, botVars, teleVars>>

\* a token loop that puts each matcher in front of the ones before it
ParseTokenPrepend ==
    /\ pc = "tokens" /\ j < Len(tokens)
    /\ LET r == ParseMatcher(tokens[j + 1])
       IN  IF r.ok
           THEN /\ matchers' = <<r.m>> \o matchers
                /\ j' = j + 1
                /\ UNCHANGED <<pc, err>>
           ELSE /\ matchers' = <<>>
                /\ err' = r.err
                /\ pc' = "done"
                /\ UNCHANGED j
    /\ UNCHANGED <<text, scanVars, pm, rt, timeVars, matchVars, botVars, teleVars>>

ParseToken ==
    /\ pc = "tokens" /\ j < Len(tokens)
    /\ LET r == ParseMatcher(tokens[j + 1])
       IN  IF r.ok
           THEN /\ matchers' = Append(matchers, r.m)
                /\ j' = j + 1
                /\ UNCHANGED <<pc, err>>
           ELSE /\ matchers' = <<>>
                /\ err' = r.err
                /\ pc' = "done"
                /\ UNCHANGED j
    /\ UNCHANGED <<text, scanVars, pm, rt, timeVars, matchVars, botVars, teleVars>>

ParseMatchersReturn ==
    /\ pc = "tokens" /\ j = Len(tokens)
    /\ pc' = "done"
    /\ UNCHANGED <<text, scanVars, j, matchers, err, pm, rt, timeVars, matchVars, botVars, teleVars>>

NextList == ParseMatchersBegin \/ ScanStep \/ ScanEnd \/ ParseToken \/ ParseMatchersReturn
SpecList == InitList /\ [][NextList]_vars
SpecTrim == InitTrim /\ [][NextList]_vars

\* ---- ParseMatcher, then Matcher.String and ParseMatcher again ----

InitOne ==
    /\ \/ text \in SeqsUpTo(AlphaOne, MaxOneLen)
       \/ \E h \in Heads, v \in SeqsUpTo(AlphaValue, MaxValLen) : text = h \o v
    /\ pc = "start"
    /\ TimeIdle /\ ParseIdle /\ MatchIdle /\ BotIdle /\ TeleIdle

ParseMatcherCall ==
    /\ pc = "start"
    /\ pm' = ParseMatcher(text)
    /\ pc' = "parsed"
    /\ UNCHANGED <<text, scanVars, j, matchers, err, rt, timeVars, matchVars, botVars, teleVars>>

RenderAndParse ==
    /\ pc = "parsed" /\ pm.ok
    /\ rt' = ParseMatcher(MatcherString(pm.m))
    /\ pc' = "reparsed"
    /\ UNCHANGED <<text, scanVars, j, matchers, err, pm, timeVars, matchVars, botVars, teleVars>>

NextOne == ParseMatcherCall \/ RenderAndParse
SpecOne == InitOne /\ [][NextOne]_vars

\* ---- Matchers.Matches ----

LabelNames  == {<<"n">>, <<"m">>}
LabelValues == {<<>>, <<"n">>, <<"n", "n">>}
Patterns    == {<<"n", ".">>, <<".", "+">>}

\* every matcher NewMatcher builds from the names and values of the model
MatcherPool ==
    {NewMatcher(t, n, v).m : t \in MatchTypes, n \in LabelNames,
                             v \in {<<"n">>} \cup Patterns}

LabelSets == UNION {[D -> LabelValues] : D \in SUBSET LabelNames}

InitMatch ==
    /\ ms \in SeqsUpTo(MatcherPool, MaxMatchers)
    /\ lset \in LabelSets
    /\ matched = FALSE /\ subject = <<>>
    /\ text = <<>> /\ pc = "start" /\ TimeIdle /\ ParseIdle /\ BotIdle /\ TeleIdle

MatchesCall ==
    /\ pc = "start"
    /\ matched' = MatchersMatches(ms, lset)
    /\ pc' = "done"
    /\ UNCHANGED <<ms, lset, subject, text, scanVars, j, matchers, err, pm, rt, timeVars, botVars, teleVars>>

NextMatch == MatchesCall
SpecMatch == InitMatch /\ [][NextMatch]_vars

\* ---- ParseMatcher of a =~ or !~ clause, then Matcher.Matches ----

StatusCode   == <<"s", "t", "a", "t", "u", "s", "c", "o", "d", "e">>
PatternChars == {"5", ".", "+"}
SubjectChars == {"5", "0", "9"}

InitRegexp ==
    /\ \E op \in {<<"=", "~">>, <<"!", "~">>}, p \in SeqsUpTo(PatternChars, MaxPatLen) :
           text = StatusCode \o op \o <<QUOTE>> \o p \o <<QUOTE>>
    /\ subject \in SeqsUpTo(SubjectChars, MaxSubjLen)
    /\ ms = <<>> /\ lset = <<>> /\ matched = FALSE
    /\ pc = "start" /\ TimeIdle /\ ParseIdle /\ BotIdle /\ TeleIdle

MatcherMatchesCall ==
    /\ pc = "parsed" /\ pm.ok
    /\ matched' = MatcherMatches(pm.m, subject)
    /\ pc' = "matched"
    /\ UNCHANGED <<ms, lset, subject, text, scanVars, j, matchers, err, pm, rt, timeVars, botVars, teleVars>>

NextRegexp == ParseMatcherCall \/ MatcherMatchesCall
SpecRegexp == InitRegexp /\ [][NextRegexp]_vars

\* ---- the command handlers of the bot, one command in a behaviour ----

\* message.Text is kept as strings.Split(message.Text, " "): the command and
\* what follows each blank.  The fingerprints a user sends: those of the
\* alerts held, those of the first two label sets of the model, one of no
\* alert, and the empty text behind a blank.
Stop         == <<"s", "t", "o", "p">>
Fingerprints(al) ==
    {Fingerprint(al[k]) : k \in 1..Len(al)}
        \cup {Fingerprint(AlertPool[1]), Fingerprint(AlertPool[2]), <<"f", "0">>, <<>>}
HourArgs     == {Stop, <<>>, <<"0">>, <<"1">>, <<"2", "4">>, <<"2", "5">>, <<"-", "1">>, <<"n">>}

Messages(cmd, args) == {<<cmd>>} \cup {<<cmd, a>> : a \in args}

\* the values of six calls of time.Now() from the instant t on
Readings(t) == {ts \in [1..6 -> t..MaxTime] : \A k \in 1..5 : ts[k] <= ts[k + 1]}

Envs(t) ==
    [failed : BOOLEAN, ts : Readings(t),
     resp : {SendFailed, Answered(StatusOK), Answered(400), Answered(500)},
     lgs : [1..2 -> {NoErr, Errorf(ErrLog, <<>>)}]]

Reply(msg, hours, e) == [msg |-> msg, hours |-> hours, err |-> e]

InitBot ==
    /\ alerts \in SeqsUpTo(PlainPool, MaxAlerts)
    /\ fields = <<>> /\ listErr = NoErr /\ posts = <<>> /\ deletes = <<>>
    /\ response = NoResponse /\ logged = <<>> /\ ret = NoErr /\ reply = NoReply
    /\ silenceIDs = <<>> /\ TeleIdle
    /\ text = <<>> /\ pc = "start" /\ TimeIdle /\ ParseIdle /\ MatchIdle

\* Alertmanager gives a silence it accepts an ID of its own, a UUID that no
\* silence had before
NewID(ids) == "uuid-" \o ToString(Len(ids) + 1)

\* what a handler leaves of a call r of silence or silenceAll that read the
\* clock up to the instant t; a panic ends the handler before its reply
Handled(r, t, created) ==
    /\ ret' = r.ret /\ listErr' = r.listErr /\ posts' = r.posts
    /\ response' = r.response /\ logged' = r.logged
    /\ reply' = IF r.ret.kind = ErrPanic THEN NoReply
                ELSE IF r.ret # NoErr THEN Reply("responseSilenceFail", 0, r.ret)
                ELSE created
    /\ now' = IF r.posts # <<>> THEN t ELSE now
    /\ deletes' = <<>>
    /\ silenceIDs' = IF r.posts # <<>> /\ r.response = Answered(StatusOK)
                      THEN Append(silenceIDs, NewID(silenceIDs))
                      ELSE silenceIDs

\* the body of handleSilenceTwoHours, handleSilenceFortyEightHours and
\* handleSilenceTwoWeeks on the message text fs
handleSilenceFor(fs, duration, env) ==
    /\ fields' = fs
    /\ IF Len(fs) > 1
       THEN \E r \in {silence(fs[2], duration, alerts, env)} :
                Handled(r, env.ts[6], Reply("responseSilenceCreated", 0, NoErr))
       ELSE Handled(NoPost(NoErr, NoErr), now, Reply("responseNoFingerprint", 0, NoErr))

\* handleSilenceTwoHours, handleSilenceFortyEightHours, handleSilenceTwoWeeks
HandleSilenceFor(cmd, duration) ==
    /\ pc = "start" /\ pc' = "handled"
    /\ \E fs \in Messages(cmd, Fingerprints(alerts)), env \in Envs(now) :
        /\ handleSilenceFor(fs, duration, env)
        /\ UNCHANGED <<alerts, start, end, current, state, stored, resolved,
                       text, scanVars, j, matchers, err, pm, rt, matchVars, teleVars>>

HandleSilenceTwoHours        == HandleSilenceFor("/s2h", TwoHours)
HandleSilenceFortyEightHours == HandleSilenceFor("/s48h", FortyEightHours)
HandleSilenceTwoWeeks        == HandleSilenceFor("/s2w", TwoWeeks)

\* `if newTime > 24 || newTime < 1 { newTime = 8 }`
ClampHours(newTime) == IF newTime > 24 \/ newTime < 1 THEN 8 ELSE newTime

\* the body of handleServiceMaintenance on the message text fs
handleServiceMaintenance(fs, env) ==
    /\ fields' = fs
    /\ IF Len(fs) > 1 /\ fs[2] = Stop
       THEN \E r \in {DeleteSuperSilence("SUPER_SILENCE", env.resp, env.lgs)} :
                /\ ret' = r.ret /\ logged' = r.logged /\ response' = env.resp
                /\ deletes' = <<"SUPER_SILENCE">>
                /\ reply' = IF r.ret.kind = ErrPanic THEN NoReply
                            ELSE IF r.ret # NoErr THEN Reply("responseSilenceFail", 0, r.ret)
                            ELSE Reply("TEST_SUPERSTOP", 0, NoErr)
                /\ listErr' = NoErr /\ posts' = <<>>
                /\ UNCHANGED <<now, silenceIDs>>
       ELSE IF Len(fs) > 1
       THEN \E newTime \in {ClampHours(Atoi(fs[2]))} :
            \E r \in {silenceAll(newTime * Hour, env)} :
                Handled(r, env.ts[6], Reply("responseSilenceAllCreated", newTime, NoErr))
       ELSE \E r \in {silenceAll(DefaultTime, env)} :
                Handled(r, env.ts[6],
                        Reply("responseSilenceAllCreated", DefaultTime \div Hour, NoErr))

HandleServiceMaintenance ==
    /\ pc = "start" /\ pc' = "handled"
    /\ \E fs \in Messages("/sm", HourArgs), env \in Envs(now) :
        /\ handleServiceMaintenance(fs, env)
        /\ UNCHANGED <<alerts, start, end, current, state, stored, resolved,
                       text, scanVars, j, matchers, err, pm, rt, matchVars, teleVars>>

NextBot ==
    \/ HandleSilenceTwoHours \/ HandleSilenceFortyEightHours \/ HandleSilenceTwoWeeks
    \/ HandleServiceMaintenance
SpecBot == InitBot /\ [][NextBot]_vars

\* ---- the same handlers, on alerts with every label set of the model ----

\* the clock stands at its last instant, so every reading gives that one
InitLabels ==
    /\ alerts \in SeqsUpTo({AlertPool[k] : k \in 1..Len(AlertPool)}, MaxAlerts)
    /\ fields = <<>> /\ listErr = NoErr /\ posts = <<>> /\ deletes = <<>>
    /\ response = NoResponse /\ logged = <<>> /\ ret = NoErr /\ reply = NoReply
    /\ start = 0 /\ end = 0 /\ now = MaxTime /\ current = 0 /\ state = ""
    /\ stored = "" /\ resolved = NotResolved
    /\ silenceIDs = <<>> /\ TeleIdle
    /\ text = <<>> /\ pc = "start" /\ ParseIdle /\ MatchIdle

SpecLabels == InitLabels /\ [][NextBot]_vars

\* ---- /sm commands one after the other ----

\* the handler has returned and the next message is awaited
HandlerReturn ==
    /\ pc = "handled" /\ ret.kind # ErrPanic
    /\ Len(silenceIDs) < MaxSilences
    /\ pc' = "start"
    /\ UNCHANGED <<text, scanVars, j, matchers, err, pm, rt, timeVars, matchVars,
                   botVars, teleVars>>

InitMaintenance ==
    /\ alerts = <<>>
    /\ fields = <<>> /\ listErr = NoErr /\ posts = <<>> /\ deletes = <<>>
    /\ response = NoResponse /\ logged = <<>> /\ ret = NoErr /\ reply = NoReply
    /\ silenceIDs = <<>> /\ TeleIdle
    /\ start = 0 /\ end = 0 /\ now \in MaxTime - 1..MaxTime /\ current = 0 /\ state = ""
    /\ stored = "" /\ resolved = NotResolved
    /\ text = <<>> /\ pc = "start" /\ ParseIdle /\ MatchIdle

NextMaintenance == HandleServiceMaintenance \/ HandlerReturn
SpecMaintenance == InitMaintenance /\ [][NextMaintenance]_vars

\* ---- NewBot, then calls of isAdminID ----

\* the user IDs of the model
UserIDs == {1, 2, 3}

Options == {ExtraAdmins(ids) : ids \in SeqsUpTo(UserIDs, MaxOptions)} \cup {OtherOption}

InitAdmins ==
    /\ text = <<>> /\ pc = "start"
    /\ TimeIdle /\ ParseIdle /\ MatchIdle /\ BotIdle /\ TeleIdle

\* telebot.NewBot may fail, and NewBot then returns no bot
NewBotCall ==
    /\ pc = "start"
    /\ \E admin \in UserIDs, opts \in SeqsUpTo(Options, MaxOptions), failed \in BOOLEAN :
        /\ config' = [admin |-> admin, opts |-> opts]
        /\ IF failed THEN pc' = "failed" /\ UNCHANGED admins
           ELSE pc' = "built" /\ admins' = NewBot(admin, opts)
    /\ UNCHANGED <<isAdmin, message, chats, counters, handler, webhooks, sent, out,
                   startIndex, splits, text, scanVars, j, matchers, err, pm, rt,
                   timeVars, matchVars, botVars>>

IsAdminIDCall ==
    /\ pc = "built"
    /\ \E id \in UserIDs \cup {0} :
        isAdmin' = [id |-> id, value |-> isAdminID(admins, id)]
    /\ UNCHANGED <<pc, config, admins, message, chats, counters, handler, webhooks, sent,
                   out, startIndex, splits, text, scanVars, j, matchers, err, pm, rt,
                   timeVars, matchVars, botVars>>

NextAdmins == NewBotCall \/ IsAdminIDCall
SpecAdmins == InitAdmins /\ [][NextAdmins]_vars

\* ---- splitMessage, one loop iteration per step ----

\* the bytes of the messages of the model; the parts a call appends are
\* counted up to MaxParts, more than a call that returns can append
OutChars == {"a", LF}
MaxParts == MaxOutLen + 1

SplitIdle == startIndex = 0 /\ splits = <<>>

InitSplit ==
    /\ out \in SeqsUpTo(OutChars, MaxOutLen)
    /\ SplitIdle
    /\ config = NoConfig /\ admins = <<>> /\ isAdmin = NoIsAdmin
    /\ message = NoMessage /\ chats = <<>> /\ counters = NoCounters
    /\ handler = "" /\ webhooks = <<>> /\ sent = <<>>
    /\ text = <<>> /\ pc = "start"
    /\ TimeIdle /\ ParseIdle /\ MatchIdle /\ BotIdle

SplitUnchanged ==
    UNCHANGED <<out, config, admins, isAdmin, message, chats, counters, handler,
                webhooks, sent, text, scanVars, j, matchers, err, pm, rt,
                timeVars, matchVars, botVars>>

\* `if len(str) > 4095`, and the else branch with its return
SplitBegin ==
    /\ pc = "start"
    /\ IF Len(out) > maxLength
       THEN pc' = "loop" /\ startIndex' = 0 /\ splits' = <<>>
       ELSE pc' = "done" /\ splits' = <<out>> /\ UNCHANGED startIndex
    /\ SplitUnchanged

SplitStep ==
    /\ pc = "loop"
    /\ startIndex + maxLength < Len(out)
    /\ Len(splits) < MaxParts
    /\ \E it \in {Iteration(out, startIndex)} :
        /\ splits' = Append(splits, it.split)
        /\ startIndex' = it.startIndex
    /\ UNCHANGED pc
    /\ SplitUnchanged

SplitReturn ==
    /\ pc = "loop"
    /\ ~(startIndex + maxLength < Len(out))
    /\ pc' = "done"
    /\ UNCHANGED <<startIndex, splits>>
    /\ SplitUnchanged

NextSplit == SplitBegin \/ SplitStep \/ SplitReturn
SpecSplit == InitSplit /\ [][NextSplit]_vars

\* ---- Serve, one webhook message per step ----

RECURSIVE As(_)
As(n) == IF n = 0 THEN <<>> ELSE <<"a">> \o As(n - 1)

\* A webhook message is kept as what the template makes of it: an error,
\* or the text out.  The messages of the model: one that does not render, a
\* short one, one of two windows and a byte, one that begins with a blank
\* line and one with a blank line before its last byte.
Rendered(txt) == [renders |-> TRUE, out |-> txt]
NotRendered   == [renders |-> FALSE, out |-> <<>>]
WebhookPool(n) ==
    {NotRendered, Rendered(<<"a">>), Rendered(As(2 * n + 1)),
     Rendered(BlankLine \o As(n)), Rendered(As(n) \o BlankLine \o <<"a">>)}

\* the chats of the store, in the order List returns them
ChatLists == {<<>>, <<1>>, <<2, 1>>}

\* Serve is at its select, after a message it sent, after one it dropped
ServeReady == {"serving", "served", "listFailed", "renderFailed"}

InitServe ==
    /\ webhooks \in SeqsUpTo(WebhookPool(maxLength), MaxWebhooks)
    /\ chats \in ChatLists
    /\ sent = <<>> /\ out = <<>> /\ SplitIdle
    /\ config = NoConfig /\ admins = <<>> /\ isAdmin = NoIsAdmin
    /\ message = NoMessage /\ counters = NoCounters /\ handler = ""
    /\ text = <<>> /\ pc = "serving"
    /\ TimeIdle /\ ParseIdle /\ MatchIdle /\ BotIdle

\* `case w := <-webhooks` and the body of the case.  splitMessage is called
\* in the loop over the chats; when it does not return, Serve stays in it.
ServeWebhook ==
    /\ pc \in ServeReady /\ webhooks # <<>>
    /\ webhooks' = Tail(webhooks)
    /\ \E listFailed \in BOOLEAN, w \in {Head(webhooks)} :
        IF listFailed THEN pc' = "listFailed" /\ UNCHANGED <<out, sent>>
        ELSE IF ~w.renders THEN pc' = "renderFailed" /\ out' = <<>> /\ UNCHANGED sent
        ELSE /\ out' = w.out
             /\ IF chats = <<>> THEN pc' = "served" /\ UNCHANGED sent
                ELSE \E sp \in {splitMessage(w.out)} :
                     IF ~sp.returns THEN pc' = "splitting" /\ UNCHANGED sent
                     ELSE /\ pc' = "served"
                          /\ \E failing \in SUBSET (1..Len(chats) * Len(sp.splits)) :
                                 sent' = sent \o SendChats(chats, sp.splits, 1, failing)
    /\ UNCHANGED <<chats, config, admins, isAdmin, message, counters, handler,
                   startIndex, splits, text, scanVars, j, matchers, err, pm, rt,
                   timeVars, matchVars, botVars>>

NextServe == ServeWebhook
SpecServe == InitServe /\ [][NextServe]_vars

\* ---- HandleCommands, one message in a behaviour ----

\* The texts users send: every command, commands with the suffix of the
\* bot at their end or inside, a text that is no command; behind them
\* nothing, a fingerprint, "stop" or a number.  A message comes from a
\* private chat, whose ID is the sender's.
CommandTexts ==
    {c.text : c \in commands}
        \cup {commandHelp \o commandSuffix, commandStop \o commandSuffix,
              commandServiceMaintenance \o commandSuffix,
              <<"/", "h", "e">> \o commandSuffix \o <<"l", "p">>, <<"/", "x">>}
Arguments == {<<>>, <<Fingerprint(AlertPool[1])>>, <<Stop>>, <<<<"2">>>>}

IncomingMessages ==
    [Sender : UserIDs, Text : {<<c>> \o a : c \in CommandTexts, a \in Arguments},
     Service : BOOLEAN, Notify : {NoErr, Errorf(ErrNotify, <<>>)}]

InitCommands ==
    /\ config \in {[admin |-> 1, opts |-> <<>>],
                    [admin |-> 2, opts |-> <<ExtraAdmins(<<1>>)>>]}
    /\ admins = NewBot(config.admin, config.opts)
    /\ chats \in ChatLists
    /\ alerts \in {<<>>, <<AlertPool[1]>>}
    /\ isAdmin = NoIsAdmin /\ message = NoMessage /\ counters = NoCounters
    /\ handler = "" /\ webhooks = <<>> /\ sent = <<>> /\ out = <<>> /\ SplitIdle
    /\ fields = <<>> /\ listErr = NoErr /\ posts = <<>> /\ deletes = <<>>
    /\ response = NoResponse /\ logged = <<>> /\ ret = NoErr /\ reply = NoReply
    /\ silenceIDs = <<>>
    /\ start = 0 /\ end = 0 /\ now = MaxTime /\ current = 0 /\ state = ""
    /\ stored = "" /\ resolved = NotResolved
    /\ text = <<>> /\ pc = "start" /\ ParseIdle /\ MatchIdle

\* a handler, or HandleCommands itself, that answers msg and does no more
Answers(fs, msg, le) ==
    /\ fields' = fs
    /\ Handled(NoPost(NoErr, le), now, msg)

\* handler(message) for the handler named h; failed tells whether the
\* chat store returns an error
RunHandler(h, msg, env, failed) ==
    CASE h = "handleStart" ->
            IF failed
            THEN Answers(msg.Text, Reply("responseStartFail", 0, NoErr), NoErr)
                     /\ UNCHANGED chats
            ELSE Answers(msg.Text, Reply("responseStart", 0, NoErr), NoErr)
                     /\ chats' = StoreAdd(chats, msg.Sender)
      [] h = "handleStop" ->
            IF failed
            THEN Answers(msg.Text, Reply("responseStopFail", 0, NoErr), NoErr)
                     /\ UNCHANGED chats
            ELSE Answers(msg.Text, Reply("responseStop", 0, NoErr), NoErr)
                     /\ chats' = StoreRemove(chats, msg.Sender)
      [] h = "handleChats" ->
            /\ Answers(msg.Text,
                       Reply(IF failed THEN "responseChatsFail" ELSE "responseChats",
                             0, NoErr), NoErr)
            /\ UNCHANGED chats
      [] h \in {"handleAlerts", "handleFingerprint"} ->
            /\ \E l \in {ListAlerts(alerts, env.failed)} :
                IF h = "handleFingerprint" /\ Len(msg.Text) = 1
                THEN Answers(msg.Text, NoReply, NoErr)
                ELSE IF ~l.ok
                THEN Answers(msg.Text, Reply("responseAlertsFail", 0, l.err), l.err)
                ELSE IF h = "handleAlerts"
                THEN Answers(msg.Text,
                             Reply(IF Len(l.alerts) = 0 THEN "responseNoAlerts"
                                   ELSE "telegram.default", 0, NoErr), NoErr)
                ELSE Answers(msg.Text,
                             Reply(IF \E k \in 1..Len(l.alerts) :
                                         Fingerprint(l.alerts[k]) = msg.Text[2]
                                   THEN "responseFingerprintFound"
                                   ELSE "responseNoFingerprintFound", 0, NoErr), NoErr)
            /\ UNCHANGED chats
      [] h = "handleSilenceTwoHours" ->
            handleSilenceFor(msg.Text, TwoHours, env) /\ UNCHANGED chats
      [] h = "handleSilenceFortyEightHours" ->
            handleSilenceFor(msg.Text, FortyEightHours, env) /\ UNCHANGED chats
      [] h = "handleSilenceTwoWeeks" ->
            handleSilenceFor(msg.Text, TwoWeeks, env) /\ UNCHANGED chats
      [] h = "handleServiceMaintenance" ->
            handleServiceMaintenance(msg.Text, env) /\ UNCHANGED chats
      [] h = "handleHelp" ->
            Answers(msg.Text, Reply("responseHelp", 0, NoErr), NoErr) /\ UNCHANGED chats
      [] h = "handleStatus" ->
            Answers(msg.Text, Reply("responseStatus", 0, NoErr), NoErr) /\ UNCHANGED chats
      [] h = "handleSilences" ->
            Answers(msg.Text, Reply("responseSilences", 0, NoErr), NoErr) /\ UNCHANGED chats
      [] h = "handleSilence" ->
            Answers(msg.Text, Reply("responseInDev", 0, NoErr), NoErr) /\ UNCHANGED chats
      [] h = "handleAdminsList" ->
            Answers(msg.Text, Reply("responseAdmins", 0, NoErr), NoErr) /\ UNCHANGED chats

HandleCommands ==
    /\ pc = "start" /\ pc' = "handled"
    /\ \E msg \in IncomingMessages, env \in Envs(now), failed \in BOOLEAN :
        /\ message' = msg
        /\ LET zeroed      == InitCounters(counters, {c.label : c \in commands})
               commandName == CommandName(msg.Text)
               known       == {c \in commands : c.text = commandName}
           IN  IF msg.Service \/ msg.Notify # NoErr
               THEN /\ counters' = zeroed /\ handler' = ""
                    /\ UNCHANGED <<chats, fields, listErr, posts, deletes, response,
                                   logged, ret, reply, silenceIDs, now>>
               ELSE IF Forbidden(admins, msg.Sender, commandName)
               THEN /\ counters' = Add(zeroed, "dropped", 1) /\ handler' = ""
                    /\ Answers(msg.Text, Reply("responseNonAdmin", 0, NoErr), NoErr)
                    /\ UNCHANGED chats
               ELSE IF known = {}
               THEN /\ counters' = Add(zeroed, "incomprehensible", 1) /\ handler' = ""
                    /\ Answers(msg.Text, Reply("responseIncomprehensible", 0, NoErr), NoErr)
                    /\ UNCHANGED chats
               ELSE \E c \in known :
                    /\ counters' = Add(zeroed, c.label, 1) /\ handler' = c.handler
                    /\ RunHandler(c.handler, msg, env, failed)
    /\ UNCHANGED <<alerts, config, admins, isAdmin, webhooks, sent, out, startIndex,
                   splits, start, end, current, state, stored, resolved,
                   text, scanVars, j, matchers, err, pm, rt, matchVars>>

NextCommands == HandleCommands
SpecCommands == InitCommands /\ [][NextCommands]_vars

----------------------------------------------------------------------------
(* Properties *)

Range(f) == {f[k] : k \in DOMAIN f}

\* ---- C1 ----

\* C1 as stated: at the instant current of the call, CalcSilenceState(start,
\* end) is pending when current < start, active when start <= current < end
\* and expired when current >= end, for every ordering of start and end.
C1_AsStated ==
    state # "" =>
        /\ (current < start => state = SilenceStatePending)
        /\ (start <= current /\ current < end => state = SilenceStateActive)
        /\ (current >= end => state = SilenceStateExpired)

\* C1 amended: pending when current < start, active when start <= current <
\* end, expired when current >= end and current >= start; so with end < start
\* an instant in [end, start) is pending, not expired.
C1_CalcSilenceState ==
    state # "" =>
        /\ (current < start => state = SilenceStatePending)
        /\ (start <= current /\ current < end => state = SilenceStateActive)
        /\ (current >= end /\ current >= start => state = SilenceStateExpired)

\* the call has run on a window with end < start, at an instant in [end, start)
C1_Witness ==
    state = SilenceStatePending /\ end < start /\ end <= current /\ current < start

\* ---- C2 ----

\* C2: for every text ParseMatcher accepts, parsing the rendering
\* Matcher.String() of the result succeeds and gives a matcher of the same
\* type, name and value.
C2_RoundTrip ==
    pc = "reparsed" =>
        /\ rt.ok
        /\ rt.m.Type = pm.m.Type /\ rt.m.Name = pm.m.Name /\ rt.m.Value = pm.m.Value

\* a round trip whose rendering differs from the accepted text and whose
\* value holds a backslash, a double quote and a line feed
C2_Witness ==
    /\ pc = "reparsed"
    /\ MatcherString(pm.m) # text
    /\ {BSLASH, QUOTE, LF} \subseteq Range(pm.m.Value)

\* ---- C3 ----

\* what the claim says of one matcher and a label set
C3_MatcherHolds(m, ls) ==
    LET v == IF m.Name \in DOMAIN ls THEN ls[m.Name] ELSE <<>>
    IN  \/ m.Type = MatchEqual     /\ v = m.Value
        \/ m.Type = MatchNotEqual  /\ v # m.Value
        \/ m.Type = MatchRegexp    /\ RegexpMatchString(m.Value, v)
        \/ m.Type = MatchNotRegexp /\ ~RegexpMatchString(m.Value, v)

\* C3: Matchers.Matches(lset) is true iff every matcher of the list matches
\* the value of the label with its name (a missing label counts as ""), and
\* the result is the same for every order of the list.
C3_MatchesAll ==
    pc = "done" =>
        /\ matched = (\A k \in 1..Len(ms) : C3_MatcherHolds(ms[k], lset))
        /\ \A p \in Permutations(1..Len(ms)) :
               MatchersMatches([k \in 1..Len(ms) |-> ms[p[k]]], lset) = matched

\* a list whose first matcher matches (on a missing label) and whose second
\* does not
C3_Witness ==
    /\ pc = "done" /\ Len(ms) = 2 /\ ~matched
    /\ ms[1].Name \notin DOMAIN lset
    /\ C3_MatcherHolds(ms[1], lset) /\ ~C3_MatcherHolds(ms[2], lset)

\* ---- C4 ----

\* the value token of a text `re` matches: the third group without one
\* leading double quote
ValueToken(str) == TrimPrefix(ReFindStringSubmatch(str).value, QUOTE)

\* the number of consecutive backslashes that end at position k of raw
RECURSIVE BackslashRun(_, _)
BackslashRun(raw, k) ==
    IF k >= 1 /\ raw[k] = BSLASH THEN 1 + BackslashRun(raw, k - 1) ELSE 0

\* position k holds a double quote that no backslash escapes
UnescapedQuoteAt(raw, k) == raw[k] = QUOTE /\ BackslashRun(raw, k - 1) % 2 = 0

\* an unescaped double quote stands somewhere before the last character
InnerQuote(raw) == \E k \in 1..(Len(raw) - 1) : UnescapedQuoteAt(raw, k)

\* the unescaping the claim describes, read from the left in escape pairs
RECURSIVE C4_Unescaped(_)
C4_Unescaped(raw) ==
    IF Len(raw) = 0 THEN <<>>
    ELSE IF raw[1] = BSLASH /\ Len(raw) >= 2 THEN
        (CASE raw[2] = "n"    -> <<LF>>
           [] raw[2] = QUOTE  -> <<QUOTE>>
           [] raw[2] = BSLASH -> <<BSLASH>>
           [] OTHER           -> <<BSLASH, raw[2]>>) \o C4_Unescaped(SubSeq(raw, 3, Len(raw)))
    ELSE IF raw[1] = QUOTE /\ Len(raw) = 1 THEN <<>>
    ELSE <<raw[1]>> \o C4_Unescaped(Tail(raw))

\* C4: the value ParseMatcher hands to NewMatcher is the value token
\* unescaped as the claim describes (one leading quote stripped, the three
\* escape pairs replaced, any other backslash kept, a last double quote
\* dropped); without an inner unescaped quote the unescaping raises no error,
\* so an Equal or NotEqual matcher always results.
C4_Unescape ==
    pc = "parsed" /\ ReFindStringSubmatch(text).ok /\ ~InnerQuote(ValueToken(text)) =>
        LET sub == ReFindStringSubmatch(text)
            v   == C4_Unescaped(ValueToken(text))
        IN  /\ pm = NewMatcher(typeMap[sub.op], sub.name, v)
            /\ pm.err.kind # ErrUnescaped
            /\ typeMap[sub.op] \in {MatchEqual, MatchNotEqual} =>
                   pm.ok /\ pm.m.Value = v

\* an accepted value token with a spurious escape and a last backslash
C4_Witness ==
    /\ pc = "parsed" /\ pm.ok
    /\ ValueToken(text) = <<BSLASH, SP, BSLASH>>
    /\ pm.m.Value = <<BSLASH, SP, BSLASH>>

\* ---- C5 ----

\* a clause whose value token holds an inner unescaped double quote
Offending(str) == ReFindStringSubmatch(str).ok /\ InnerQuote(ValueToken(str))

\* C5: ParseMatcher fails, without a matcher, on a clause whose value token
\* holds an unescaped double quote before its last character, and
\* ParseMatchers fails, without a list, on a text with such a clause.
C5_UnescapedQuote ==
    /\ pc \in {"tokens", "done"} =>
           \A k \in 1..Len(tokens) :
               Offending(tokens[k]) =>
                   ~ParseMatcher(tokens[k]).ok /\ ParseMatcher(tokens[k]).m = NilMatcher
    /\ pc = "done" /\ (\E k \in 1..Len(tokens) : Offending(tokens[k])) =>
           err # NoErr /\ matchers = <<>>

\* a list of two clauses refused for the inner quote of its second clause
C5_Witness ==
    /\ pc = "done" /\ Len(tokens) = 2
    /\ ~Offending(tokens[1]) /\ Offending(tokens[2])
    /\ err.kind = ErrUnescaped /\ matchers = <<>>

\* ---- C6 ----

\* the result ParseMatchers returned for text
Returned == [ok |-> err = NoErr, ms |-> matchers, err |-> err]

\* text followed by a comma, and by a comma and a blank
WithTrailingComma == {text \o <<COMMA>>, text \o <<COMMA, SP>>, text \o <<COMMA, VT>>}

\* C6 as stated: every accepted text of one or more clauses parses to the
\* same list when a comma (and optional whitespace) follows it.
C6_AsStated ==
    pc = "done" /\ err = NoErr /\ Len(matchers) >= 1 =>
        \A u \in WithTrailingComma : ParseMatchers(u) = Returned

\* the last clause of the text is not blank and has no white space around it
\* other than the blanks of `re`
PlainLastClause == TrimSpace(token) # <<>> /\ TrimSpace(token) = TrimRight(TrimLeft(token))

EndsWith(str, c) == Len(str) > 0 /\ str[Len(str)] = c

\* C6 amended: the same, for accepted texts that do not end with '}', whose
\* scan ends outside a quoted span and whose last clause is plain.
C6_TrailingComma ==
    pc = "done" /\ err = NoErr /\ Len(matchers) >= 1
        /\ ~EndsWith(text, RBRACE) /\ ~insideQuotes /\ PlainLastClause =>
        \A u \in WithTrailingComma : ParseMatchers(u) = Returned

\* an accepted text of two clauses that the amended claim covers
C6_Witness ==
    /\ pc = "done" /\ err = NoErr /\ Len(matchers) = 2
    /\ ~EndsWith(text, RBRACE) /\ ~insideQuotes /\ PlainLastClause

\* ---- C7 ----

\* Quoted spans as the claim and the comment of ParseMatchers define them: a
\* double quote opens or closes a span unless the character before it is an
\* unescaped backslash; a comma outside a span ends the clause.
RefRune(st, r) ==
    LET inside == IF r = QUOTE /\ ~st.esc THEN ~st.inside ELSE st.inside
        esc    == IF r = BSLASH THEN ~st.esc ELSE FALSE
    IN  IF r = COMMA /\ ~st.inside
        THEN [inside |-> inside, esc |-> esc, cur |-> <<>>, out |-> Append(st.out, st.cur)]
        ELSE [inside |-> inside, esc |-> esc, cur |-> Append(st.cur, r), out |-> st.out]

RECURSIVE RefScan(_, _, _)
RefScan(str, k, st) ==
    IF k > Len(str) THEN st ELSE RefScan(str, k + 1, RefRune(st, str[k]))

\* the clauses of str, the text after the last separating comma included
RefSplit(str) ==
    LET st == RefScan(str, 1, [inside |-> FALSE, esc |-> FALSE, cur |-> <<>>, out |-> <<>>])
    IN  Append(st.out, st.cur)

\* C7: when the scan is over, the text has been cut at exactly the commas
\* that lie outside the double-quoted spans.
C7_SplitOutsideQuotes ==
    pc = "scan" /\ i = Len(s) => Append(tokens, token) = RefSplit(s)

\* ---- C8 ----

\* C8: after the scanner has read a character that is not a backslash, the
\* comma included, its escaped flag is false.
C8_FlagCleared ==
    pc = "scan" /\ i > 0 /\ s[i] # BSLASH => ~escaped

\* ---- C9 ----

\* C9: ParseMatchers("") and ParseMatchers("{}") succeed with the empty list,
\* and the list they return matches every label set.
C9_EmptyList ==
    pc = "done" /\ text \in {<<>>, <<LBRACE, RBRACE>>} =>
        /\ err = NoErr /\ matchers = <<>>
        /\ \A ls \in LabelSets : MatchersMatches(matchers, ls)

\* the call on "{}" has returned
C9_Witness == pc = "done" /\ text = <<LBRACE, RBRACE>> /\ err = NoErr

\* ---- C10 ----

\* the tokens put back together, a comma between every two
RECURSIVE JoinComma(_)
JoinComma(toks) ==
    IF Len(toks) = 0 THEN <<>>
    ELSE IF Len(toks) = 1 THEN toks[1]
    ELSE toks[1] \o <<COMMA>> \o JoinComma(Tail(toks))

\* the clauses as the scanner cut them, before the last one is trimmed
RawClauses ==
    IF TrimSpace(token) # <<>> /\ Len(tokens) > 0
    THEN [tokens EXCEPT ![Len(tokens)] = token]
    ELSE Append(tokens, token)

\* C10: the clauses are the stretches of the text between the commas that
\* separate (nothing of the text is lost or moved), the last one trimmed and
\* left out when blank, and a successful ParseMatchers returns exactly the
\* matcher of each clause, in the order of the clauses.
C10_OnePerClause ==
    /\ pc = "scan" => JoinComma(Append(tokens, token)) = SubSeq(s, 1, i)
    /\ pc \in {"tokens", "done"} =>
           /\ JoinComma(RawClauses) = s
           /\ TrimSpace(token) # <<>> =>
                  Len(tokens) > 0 /\ tokens[Len(tokens)] = TrimSpace(token)
    /\ pc = "done" /\ err = NoErr =>
           /\ Len(matchers) = Len(tokens)
           /\ \A k \in 1..Len(tokens) : Ok(matchers[k]) = ParseMatcher(tokens[k])

\* two different matchers from two clauses, the first with a quoted comma
C10_Witness ==
    /\ pc = "done" /\ err = NoErr /\ Len(matchers) = 2
    /\ COMMA \in Range(matchers[1].Value)
    /\ matchers[1] # matchers[2]

\* ---- C11 ----

\* the clauses of the scanned text that ParseMatcher refuses
FailingClauses == {k \in 1..Len(tokens) : ~ParseMatcher(tokens[k]).ok}

\* the first of them in the order of the text
FirstFailing == CHOOSE k \in FailingClauses : \A l \in FailingClauses : k <= l

\* C11: when some clause of the text fails to parse, ParseMatchers returns
\* the error of the first failing clause and no list, however many clauses
\* before it were parsed; without a failing clause it returns no error.
C11_FirstError ==
    pc = "done" =>
        IF FailingClauses = {}
        THEN err = NoErr
        ELSE /\ err # NoErr
             /\ err = ParseMatcher(tokens[FirstFailing]).err
             /\ matchers = <<>>
             /\ j = FirstFailing - 1

\* a text refused for its second clause, after the first was parsed; its
\* third clause would have failed with another error
C11_Witness ==
    /\ pc = "done" /\ Len(tokens) = 3 /\ FailingClauses = {2, 3}
    /\ ParseMatcher(tokens[2]).err # ParseMatcher(tokens[3]).err
    /\ err = ParseMatcher(tokens[2]).err /\ matchers = <<>>

\* ---- C12 ----

\* what follows the label name of a text, the blanks around the name skipped
C12_AfterName(txt) ==
    LET a == TrimLeft(txt) IN TrimLeft(SubSeq(a, NameLen(a) + 1, Len(a)))

\* the operator token a text shows behind its name, the longer token first
C12_Token(b) ==
    IF Len(b) >= 2 /\ b[1] = "=" /\ b[2] = "~" THEN <<"=", "~">>
    ELSE IF Len(b) >= 2 /\ b[1] = "!" /\ b[2] = "=" THEN <<"!", "=">>
    ELSE IF Len(b) >= 2 /\ b[1] = "!" /\ b[2] = "~" THEN <<"!", "~">>
    ELSE <<"=">>

\* the match type the claim gives to each operator token
C12_Type(op) ==
    CASE op = <<"=">>      -> MatchEqual
      [] op = <<"!", "=">> -> MatchNotEqual
      [] op = <<"=", "~">> -> MatchRegexp
      [] op = <<"!", "~">> -> MatchNotRegexp

\* C12: a matcher ParseMatcher returns has the type of the operator token of
\* the text, "=~" read before "="; a text name=~v never gives an Equal
\* matcher: it gives the Regexp matcher whose value is v unescaped, or an
\* error about v.  MatchType.String() gives each type the token that maps to
\* it, and typeMap gives each token the type that renders as it.
C12_OperatorMapping ==
    /\ \A ty \in MatchTypes : typeMap[MatchTypeString(ty)] = ty
    /\ \A op \in DOMAIN typeMap :
           typeMap[op] = C12_Type(op) /\ MatchTypeString(typeMap[op]) = op
    /\ pc = "parsed" /\ ReFindStringSubmatch(text).ok =>
           LET b  == C12_AfterName(text)
               op == C12_Token(b)
               v  == TrimPrefix(TrimRight(TrimLeft(SubSeq(b, Len(op) + 1, Len(b)))), QUOTE)
           IN  /\ pm.ok => /\ pm.m.Type = C12_Type(op)
                           /\ MatchTypeString(pm.m.Type) = op
                           /\ pm.m.Value = C4_Unescaped(v)
               /\ op = <<"=", "~">> =>
                      /\ ~(pm.ok /\ pm.m.Type = MatchEqual)
                      /\ ~pm.ok => pm.err.kind \in {ErrUnescaped, ErrRegexp}

\* a Regexp matcher with a value, from a text with blanks around "=~"
C12_Witness ==
    /\ pc = "parsed" /\ pm.ok /\ pm.m.Type = MatchRegexp
    /\ text[1] = SP /\ C12_Token(C12_AfterName(text)) = <<"=", "~">>
    /\ pm.m.Value # <<>>

\* ---- C13 ----

\* the sum of the first k values of f
RECURSIVE C13_Sum(_, _)
C13_Sum(f, k) == IF k = 0 THEN 0 ELSE f[k] + C13_Sum(f, k - 1)

\* the whole of w matches the pattern v: w can be cut into one stretch per
\* item of v, of one character unless the item is repeated by '+', each
\* character of a stretch being one its item stands for
C13_WholeMatch(v, w) ==
    LET items == RegexpItems(v, 1, <<>>)
        n     == Len(items)
    IN  \E f \in [1..n -> 1..(Len(w) + 1)] :
            /\ C13_Sum(f, n) = Len(w)
            /\ \A k \in 1..n :
                   /\ ~items[k].plus => f[k] = 1
                   /\ \A q \in (C13_Sum(f, k - 1) + 1)..C13_Sum(f, k) :
                          IF items[k].kind = "any" THEN w[q] # LF ELSE w[q] = items[k].ch

\* some stretch of w shorter than w matches the pattern v
C13_PartMatch(v, w) ==
    \E a \in 1..(Len(w) + 1), b \in 0..Len(w) :
        b - a + 1 < Len(w) /\ b >= a - 1 /\ C13_WholeMatch(v, SubSeq(w, a, b))

FiveDotDot == <<"5", ".", ".">>

\* C13: a Regexp matcher matches a string exactly when the whole string
\* matches its value, so not when only a shorter stretch of it does; a
\* NotRegexp matcher matches exactly when the whole string does not.  The
\* matcher of statuscode=~"5.." matches 500 and 599, not 50 or 5000.
C13_Anchored ==
    pc = "matched" =>
        LET whole == C13_WholeMatch(pm.m.Value, subject)
        IN  /\ pm.m.Type = MatchRegexp    => matched = whole
            /\ pm.m.Type = MatchNotRegexp => matched = ~whole
            /\ pm.m.Type = MatchRegexp /\ ~whole /\ C13_PartMatch(pm.m.Value, subject)
                   => ~matched
            /\ pm.m.Type = MatchRegexp /\ pm.m.Value = FiveDotDot =>
                   /\ subject \in {<<"5", "0", "0">>, <<"5", "9", "9">>} => matched
                   /\ subject \in {<<"5", "0">>, <<"5", "0", "0", "0">>} => ~matched

\* statuscode=~"5.." applied to 5000, of which a prefix matches
C13_Witness ==
    /\ pc = "matched" /\ pm.m.Type = MatchRegexp /\ pm.m.Name = StatusCode
    /\ pm.m.Value = FiveDotDot /\ subject = <<"5", "0", "0", "0">>
    /\ C13_PartMatch(pm.m.Value, subject) /\ ~matched

\* ---- C15 ----

\* C15: Resolved, called at the instant now on a silence, is true exactly
\* when the silence's EndsAt is not the zero time and now >= EndsAt; with a
\* zero EndsAt it is false at every instant, and the silence's stored
\* Status.State makes no difference to it.
C15_Resolved ==
    resolved # NotResolved =>
        /\ resolved.value = (end # 0 /\ resolved.now >= end)
        /\ end = 0 => ~resolved.value
        /\ \A st \in SilenceStates \cup {""} :
               Resolved([StartsAt |-> start, EndsAt |-> end, Status |-> [State |-> st]],
                        resolved.now) = resolved.value

\* a silence stored as expired with a zero EndsAt, called late: not resolved
C15_Witness ==
    /\ resolved.now = MaxTime /\ end = 0 /\ stored = SilenceStateExpired
    /\ ~resolved.value

\* ---- C18 ----

\* txt without one '{' at its front, if it has one, and then without one '}'
\* at its end, if it has one
C18_Core(txt) ==
    LET a == IF Len(txt) > 0 /\ txt[1] = LBRACE THEN SubSeq(txt, 2, Len(txt)) ELSE txt
    IN  IF Len(a) > 0 /\ a[Len(a)] = RBRACE THEN SubSeq(a, 1, Len(a) - 1) ELSE a

\* text behind '{', before '}', and between the two
C18_Braced == {<<LBRACE>> \o text, text \o <<RBRACE>>, <<LBRACE>> \o text \o <<RBRACE>>}

\* C18: the text ParseMatchers scans is its input without one leading '{'
\* and one trailing '}', each dropped whether or not the other is there and
\* no further brace with it; so an input that neither starts with '{' nor
\* ends with '}' gives the same result with either brace or both around it.
C18_Braces ==
    /\ pc # "start" => s = C18_Core(text)
    /\ pc = "done" /\ ~HasPrefix(text, <<LBRACE>>) /\ ~EndsWith(text, RBRACE) =>
           /\ s = text
           /\ \A u \in C18_Braced : ParseMatchers(u) = Returned

\* an accepted list of two clauses without braces
C18_Witness ==
    /\ pc = "done" /\ ~HasPrefix(text, <<LBRACE>>) /\ ~EndsWith(text, RBRACE)
    /\ err = NoErr /\ Len(matchers) = 2 /\ matchers[1] # matchers[2]

\* ---- C14 ----

\* a handler has called Bot.silence with the fingerprint fields[2]
SilenceCalled ==
    pc = "handled" /\ fields[1] \in {"/s2h", "/s48h", "/s2w"} /\ Len(fields) > 1

\* the alerts that have the fingerprint asked for
Matching == {k \in 1..Len(alerts) : Fingerprint(alerts[k]) = fields[2]}

\* C14: when ListAlerts gives an empty list, silence returns the error "no
\* alerts found right now"; when it gives alerts none of which has the
\* fingerprint, silence returns the other error "no matches found for
\* silence!"; in both cases nothing is handed to PostSilence; and silence
\* returns nil only when some alert has the fingerprint.
C14_NoAlertsNoMatches ==
    SilenceCalled =>
        /\ listErr = NoErr /\ alerts = <<>> =>
               ret = Errorf(ErrNoAlerts, <<>>) /\ posts = <<>>
        /\ listErr = NoErr /\ alerts # <<>> /\ Matching = {} =>
               ret = Errorf(ErrNoMatches, <<>>) /\ posts = <<>>
        /\ ErrNoAlerts # ErrNoMatches
        /\ ret = NoErr => listErr = NoErr /\ Matching # {}

\* the fingerprint of an alert of the model was asked for while
\* Alertmanager held other alerts only
C14_Witness ==
    /\ SilenceCalled /\ listErr = NoErr /\ alerts # <<>> /\ Matching = {}
    /\ fields[2] = Fingerprint(AlertPool[2])
    /\ ret = Errorf(ErrNoMatches, <<>>) /\ posts = <<>>
    /\ reply.msg = "responseSilenceFail"

\* ---- C16 ----

\* a handler has called Bot.silenceAll
SilenceAllCalled == pc = "handled" /\ fields[1] = "/sm" /\ posts # <<>>

\* the duration handleServiceMaintenance gave it
C16_Duration ==
    IF Len(fields) > 1 THEN ClampHours(Atoi(fields[2])) * Hour ELSE DefaultTime

\* C16: the silence silenceAll hands to PostSilence has the one matcher
\* alertname=~".+" and a window of exactly the duration: EndsAt - StartsAt
\* = duration.
C16_OneInstant ==
    SilenceAllCalled =>
        /\ posts[1].Matchers = <<Matcher(MatchRegexp, AlertName, <<".", "+">>)>>
        /\ posts[1].EndsAt - posts[1].StartsAt = C16_Duration

\* ---- C17 ----

\* C17: every silence a handler hands to PostSilence ends after it starts
\* (by one hour or more, whatever the argument of /sm).
C17_EndsAfterStart ==
    \A k \in 1..Len(posts) :
        /\ posts[k].EndsAt > posts[k].StartsAt
        /\ posts[k].EndsAt - posts[k].StartsAt >= Hour

\* /sm 0: the argument is replaced and a silence of eight hours or more
\* is handed over
C17_Witness ==
    /\ pc = "handled" /\ fields = <<"/sm", <<"0">>>> /\ Len(posts) = 1
    /\ posts[1].EndsAt - posts[1].StartsAt >= DefaultTime

\* ---- C19 ----

\* C19: when the request of PostSilence is not sent, or is answered with a
\* status other than 200, PostSilence returns an error, so that silence and
\* silenceAll return it and the handler replies with the failure message.
C19_PostFailure ==
    pc = "handled" /\ posts # <<>> /\ response # Answered(StatusOK) =>
        /\ ret # NoErr /\ ret.kind # ErrPanic
        /\ reply.msg = "responseSilenceFail"

\* ---- C20 ----

\* the first alert that has the fingerprint asked for
FirstMatching == CHOOSE k \in Matching : \A l \in Matching : k <= l

C23_IsInteger(txt) ==
    LET body == IF Len(txt) > 0 /\ txt[1] \in {"+", "-"} THEN Tail(txt) ELSE txt
    IN  Len(body) > 0 /\ \A k \in 1..Len(body) : IsDigit(body[k])

C23_Value(txt) ==
    IF txt[1] = "-" THEN 0 - Digits(Tail(txt), 0)
    ELSE IF txt[1] = "+" THEN Digits(Tail(txt), 0)
    ELSE Digits(txt, 0)

\* the hours the claim asks for
C23_Expected ==
    IF Len(fields) > 1 /\ C23_IsInteger(fields[2]) /\ C23_Value(fields[2]) \in 1..24
    THEN C23_Value(fields[2]) ELSE 8

RECURSIVE C29_LabelMatchers(_, _)
C29_LabelMatchers(ls, k) ==
    IF k > Len(SortedLabelNames) THEN <<>>
    ELSE LET name == SortedLabelNames[k]
         IN  IF name \in DOMAIN ls
             THEN <<Matcher(MatchEqual, name, ls[name])>> \o C29_LabelMatchers(ls, k + 1)
             ELSE C29_LabelMatchers(ls, k + 1)

\* C29: the silence Bot.silence hands to PostSilence has one Equal matcher
\* for each label of the alert with the fingerprint, with the label's own
\* name and value, so its matchers match the label set of that alert.
C29_OwnLabels ==
    SilenceCalled /\ posts # <<>> =>
        /\ posts[1].Matchers = C29_LabelMatchers(alerts[FirstMatching], 1)
        /\ MatchersMatches(posts[1].Matchers, alerts[FirstMatching])

\* ---- C30 ----

\* /sm stop was handled after Alertmanager had accepted a blanket silence
StopAfterCreate ==
    /\ pc = "handled" /\ fields = <<"/sm", Stop>> /\ silenceIDs # <<>>

\* C30: /sm stop after a /sm that created a blanket silence asks
\* Alertmanager to delete the silence with the ID of that silence.
C30_StopEndsBlanket ==
    StopAfterCreate => deletes = <<silenceIDs[Len(silenceIDs)]>>

\* ---- C28 ----

\* pending, active, expired in the order of the lifecycle
C28_Rank(st) ==
    CASE st = SilenceStatePending -> 1
      [] st = SilenceStateActive  -> 2
      [] st = SilenceStateExpired -> 3

\* CalcSilenceState is called again, at the same instant or a later one
C28_Recomputed == state # "" /\ state' # state

\* CalcSilenceState and Resolved were both called at the instant current
C28_SameInstant == state # "" /\ resolved # NotResolved /\ resolved.now = current

\* C28, as stated: for a silence with StartsAt <= EndsAt the state computed
\* by CalcSilenceState only moves forward through pending, active, expired
\* as the clock does, and Resolved is true at exactly the instants where
\* the computed state is expired.
C28_AsStated ==
    /\ [][start <= end /\ C28_Recomputed => C28_Rank(state') > C28_Rank(state)]_vars
    /\ [](start <= end /\ C28_SameInstant =>
              (resolved.value <=> state = SilenceStateExpired))

\* C28, amended: the state only moves forward; for a silence whose EndsAt
\* is not the zero time Resolved is true at exactly the instants where the
\* computed state is expired; a silence whose EndsAt is the zero time (and
\* so its StartsAt) is expired at every instant and resolved at none.
C28_Forward ==
    /\ [][start <= end /\ C28_Recomputed => C28_Rank(state') > C28_Rank(state)]_vars
    /\ [](start <= end /\ end # 0 /\ C28_SameInstant =>
              (resolved.value <=> state = SilenceStateExpired))
    /\ [](start <= end /\ end = 0 /\ C28_SameInstant =>
              state = SilenceStateExpired /\ ~resolved.value)

\* at the instant a silence ends it is expired and resolved
C28_Witness ==
    /\ 0 < start /\ start < end /\ current = end /\ C28_SameInstant
    /\ state = SilenceStateExpired /\ resolved.value

\* ---- C22 ----

\* the initial admin and the ids of every WithExtraAdmins of the call
C22_Configured ==
    {config.admin} \cup
    UNION {Range(config.opts[k].ids) : k \in 1..Len(config.opts)}

C22_Sorted(a) == \A k \in 1..Len(a) - 1 : a[k] <= a[k + 1]

\* C22: after NewBot, whatever its options, b.admins is sorted ascending and
\* isAdminID(id) is true exactly for the initial admin and the ids of the
\* WithExtraAdmins options.
C22_AdminsSorted ==
    pc = "built" =>
        /\ C22_Sorted(admins)
        /\ \A id \in UserIDs \cup {0} : isAdminID(admins, id) <=> id \in C22_Configured
        /\ isAdmin # NoIsAdmin => (isAdmin.value <=> isAdmin.id \in C22_Configured)

\* two WithExtraAdmins in descending order behind the initial admin 3, and
\* a call of isAdminID for the smallest id
C22_Witness ==
    /\ pc = "built" /\ config.admin = 3
    /\ config.opts = <<ExtraAdmins(<<2, 2>>), ExtraAdmins(<<1>>)>>
    /\ admins = <<1, 2, 2, 3>>
    /\ isAdmin = [id |-> 1, value |-> TRUE]

\* ---- C25 ----

\* C25: every part splitMessage appends is at most maxLength bytes long,
\* and a message of at most maxLength bytes is returned as the one part
\* equal to it.
C25_PartLength ==
    /\ \A k \in 1..Len(splits) : Len(splits[k]) <= maxLength
    /\ pc = "done" /\ Len(out) <= maxLength => splits = <<out>>
    /\ pc = "done" => splitMessage(out) = [returns |-> TRUE, splits |-> splits]

\* a message longer than maxLength was split at the end of a window and at
\* a blank line: a part of maxLength bytes and a shorter one
C25_Witness ==
    /\ pc = "done" /\ Len(out) > maxLength /\ Len(splits) >= 2
    /\ \E k \in 1..Len(splits) : Len(splits[k]) = maxLength
    /\ \E k \in 1..Len(splits) : 0 < Len(splits[k]) /\ Len(splits[k]) < maxLength

\* ---- C26 ----

\* C26: every iteration of the loop of splitMessage leaves startIndex
\* greater than it found it, the one on a window that begins with a blank
\* line and holds no later one included.
C26_Advances == [][pc = "loop" /\ pc' = "loop" => startIndex' > startIndex]_vars

\* ---- C27 ----

\* C27: the parts splitMessage returns, joined in their order, are the
\* message.
C27_Concatenation == pc = "done" => Flatten(splits) = out

\* ---- C24 ----

\* the chat and the part of every send, in the order of the sends
C24_Pairs(sends) == [k \in 1..Len(sends) |-> <<sends[k].chat, sends[k].part>>]

\* every part to every chat: the parts in their order, chat after chat
RECURSIVE C24_Expected(_, _)
C24_Expected(chs, parts) ==
    IF Len(chs) = 0 THEN <<>>
    ELSE [k \in 1..Len(parts) |-> <<chs[1], parts[k]>>] \o C24_Expected(Tail(chs), parts)

\* C24: Serve takes the messages in the order of the channel; for a message
\* whose chat listing and rendering succeed it attempts to send every part
\* of the split message, in order, to every chat, whether sends fail or
\* not; a message whose listing or rendering fails is dropped without a
\* send; and Serve is ready for the next message afterwards.
C24_ServeInOrder ==
    [][webhooks' # webhooks =>
        /\ webhooks' = Tail(webhooks)
        /\ pc' \in ServeReady
        /\ Len(sent') >= Len(sent)
        /\ SubSeq(sent', 1, Len(sent)) = sent
        /\ LET w     == Head(webhooks)
               added == SubSeq(sent', Len(sent) + 1, Len(sent'))
           IN  IF pc' = "listFailed" \/ ~w.renders THEN added = <<>>
               ELSE C24_Pairs(added) = C24_Expected(chats, splitMessage(w.out).splits)
    ]_vars

\* ---- C21 ----

\* the step of HandleCommands on a message whose sender is no admin
C21_NonAdmin ==
    /\ pc = "start" /\ pc' = "handled"
    /\ message'.Sender \notin Range(admins)

C21_Open == {commandHelp, commandStatus, commandChats}

\* nothing but the reply and the counters is left of the message
C21_NoHandler ==
    /\ handler' = "" /\ chats' = chats
    /\ posts' = <<>> /\ deletes' = <<>> /\ silenceIDs' = silenceIDs

C21_Count(cs, label) == IF label \in DOMAIN cs THEN cs[label] ELSE 0

C21_Dropped ==
    /\ C21_Count(counters', "dropped") = C21_Count(counters, "dropped") + 1
    /\ reply'.msg = "responseNonAdmin"

\* C21, as stated: for a message of a sender who is no admin a handler runs
\* only when the command is /help, /status or /chats; for every other
\* text no handler runs, the chat store is as before, no silence is posted
\* or deleted, the counter "dropped" goes up by one and the non-admin reply
\* is sent.
C21_AsStated ==
    [][C21_NonAdmin =>
        /\ handler' # "" => CommandName(message'.Text) \in C21_Open
        /\ CommandName(message'.Text) \notin C21_Open => C21_NoHandler /\ C21_Dropped
    ]_vars

\* C21, amended: ... and, unless the message is a service message or the
\* typing notification for it fails (HandleCommands then returns at once,
\* with no reply and no count, whoever the sender), the counter "dropped"
\* goes up by one and the non-admin reply is sent.
C21_NonAdminDropped ==
    [][C21_NonAdmin =>
        /\ handler' # "" => CommandName(message'.Text) \in C21_Open
        /\ CommandName(message'.Text) \notin C21_Open =>
               /\ C21_NoHandler
               /\ IF message'.Service \/ message'.Notify # NoErr
                  THEN reply' = reply /\ C21_Count(counters', "dropped") = 0
                  ELSE C21_Dropped
    ]_vars

\* /start with the suffix of the bot from a user who is no admin and not in
\* the chat store: dropped, and the store is as it was
C21_Witness ==
    /\ pc = "handled" /\ message.Sender = 3 /\ admins = <<1, 2>>
    /\ message.Text = <<commandStop \o commandSuffix>>
    /\ ~message.Service /\ message.Notify = NoErr
    /\ handler = "" /\ chats = <<2, 1>> /\ posts = <<>> /\ deletes = <<>>
    /\ counters["dropped"] = 1 /\ counters["/stop"] = 0
    /\ reply.msg = "responseNonAdmin"

=============================================================================
